---- MODULE Spec2Model ----
(***************************************************************************)
(* A model of garmin_fit_sdk/encoder.py: the Encoder that turns a mapping  *)
(* of message lists into the bytes of a FIT file.                          *)
(*                                                                         *)
(* Python values are tagged records:                                       *)
(*   [t |-> "int",  i |-> n]      an int, -2^31 <= n < 2^31                *)
(*   [t |-> "float", n |-> n, d |-> d]  the float n/d, d a power of two,   *)
(*                                 so that float arithmetic on it is exact *)
(*   [t |-> "none"]               None                                     *)
(*   [t |-> "str",  s |-> cps]    a str, as its sequence of code points    *)
(*   [t |-> "list", l |-> vs]     a list of values                         *)
(*   [t |-> "dict", d |-> kvs]    a dict, as its items in insertion order  *)
(* A dict is the sequence of its items [k |-> key, v |-> value]; a key is  *)
(* [name |-> "heart_rate"] (a str key) or [num |-> 7] (an int key).        *)
(* Bytes are integers 0..255; an integer wider than 31 bits (an invalid    *)
(* sentinel such as 0xFFFFFFFF) is kept as its little-endian bytes.        *)
(***************************************************************************)
EXTENDS Integers, Sequences, FiniteSets, TLC

VARIABLES
    arg,                 \* the argument Encoder(...) is constructed with
    caller,              \* who began the write_to_bytes call: "bytes" | "file"
    file,                \* the file at the path given to write_to_file
    result,              \* what write_to_file returned: "True" | "False"
    messages,            \* self._messages: the items of the top-level mapping
    data_buffer,         \* self._data_buffer
    local_mesg_defs,     \* self._local_mesg_defs: slot -> definition info
    next_local_msg_num,  \* self._next_local_msg_num
    pc,                  \* "new" | "init_raised" | "idle" | "types" | "msgs" |
                         \* "returned" | "raised" | "writing" | "file_done"
    order,               \* the _write_message_type calls _write_messages makes
    ti,                  \* index into order of the type being written
    mi,                  \* index of the next message of that type
    definition_cache,    \* the local definition_cache of the per-message paths
    cur_slot,            \* the local local_msg_num of _write_unified_messages
    records,             \* history: the records appended to the buffer so far
    output,              \* the value write_to_bytes returned last
    prev_output,         \* the value the call before that returned
    calls                \* number of write_to_bytes calls begun

vars == <<arg, caller, file, result, messages, data_buffer, local_mesg_defs, next_local_msg_num, pc, order,
          ti, mi, definition_cache, cur_slot, records, output, prev_output, calls>>

-----------------------------------------------------------------------------
(* Bounds of the model.                                                    *)

\* longest message list drawn from the pools
MaxLen == 2
\* write_to_bytes calls made on one Encoder
MaxCalls == 2
\* distinct signatures in the many-signature inputs
MaxSigs == 17

-----------------------------------------------------------------------------
(* Python values and dicts.                                                *)

IntV(n) == [t |-> "int", i |-> n]
FloatV(n, d) == [t |-> "float", n |-> n, d |-> d]
NoneV == [t |-> "none"]
StrV(cps) == [t |-> "str", s |-> cps]
ListV(vs) == [t |-> "list", l |-> vs]
DictV(kvs) == [t |-> "dict", d |-> kvs]

Name(s) == [name |-> s]
Num(n) == [num |-> n]
IsStrKey(k) == DOMAIN k = {"name"}
IsIntKey(k) == DOMAIN k = {"num"}
KV(key, val) == [k |-> key, v |-> val]

IsInt(v) == v.t = "int"
IsFloat(v) == v.t = "float"
IsNone(v) == v.t = "none"
IsStr(v) == v.t = "str"
IsList(v) == v.t = "list"
IsDict(v) == v.t = "dict"

\* dict.keys() as a set, key in dict, dict[key], dict.get(key) (None if absent)
Keys(d) == {d[j].k : j \in 1..Len(d)}
Has(d, key) == key \in Keys(d)
Get(d, key) == d[CHOOSE j \in 1..Len(d) : d[j].k = key].v
GetOrNone(d, key) == IF Has(d, key) THEN Get(d, key) ELSE NoneV

RECURSIVE Concat(_)
Concat(ss) == IF ss = <<>> THEN <<>> ELSE Head(ss) \o Concat(Tail(ss))

RECURSIVE SumSeq(_)
SumSeq(ns) == IF ns = <<>> THEN 0 ELSE Head(ns) + SumSeq(Tail(ns))

Rep(b, n) == [j \in 1..n |-> b]
SeqFilter(s, Test(_)) == SelectSeq(s, Test)

Min2(a, b) == IF a <= b THEN a ELSE b
Max2(a, b) == IF a >= b THEN a ELSE b
MinOf(S) == CHOOSE x \in S : \A y \in S : x <= y
MaxOf(S) == CHOOSE x \in S : \A y \in S : x >= y

\* struct.pack little-endian bytes of n at width w (two's complement for n < 0)
RECURSIVE LE(_, _)
LE(n, w) == IF w = 0 THEN <<>> ELSE <<n % 256>> \o LE(n \div 256, w - 1)

-----------------------------------------------------------------------------
(* fit.py: the base-type table.  type_code is the struct format character, *)
(* invalid the invalid sentinel as its little-endian bytes at the type's   *)
(* size.                                                                   *)

BASE_TYPE(n) ==
    CASE n = "ENUM" -> 0 [] n = "SINT8" -> 1 [] n = "UINT8" -> 2
      [] n = "STRING" -> 7 [] n = "BYTE" -> 13
      [] n = "SINT16" -> 131 [] n = "UINT16" -> 132
      [] n = "SINT32" -> 133 [] n = "UINT32" -> 134
      [] n = "FLOAT32" -> 136 [] n = "UINT32Z" -> 140

BaseTypeCodes == {0, 1, 2, 7, 13, 131, 132, 133, 134, 136, 140}

BASE_TYPE_DEFINITIONS(bt) ==
    CASE bt = 0   -> [size |-> 1, type_code |-> "B", invalid |-> <<255>>]
      [] bt = 1   -> [size |-> 1, type_code |-> "b", invalid |-> <<127>>]
      [] bt = 2   -> [size |-> 1, type_code |-> "B", invalid |-> <<255>>]
      [] bt = 7   -> [size |-> 1, type_code |-> "s", invalid |-> <<0>>]
      [] bt = 13  -> [size |-> 1, type_code |-> "B", invalid |-> <<255>>]
      [] bt = 131 -> [size |-> 2, type_code |-> "h", invalid |-> <<255, 127>>]
      [] bt = 132 -> [size |-> 2, type_code |-> "H", invalid |-> <<255, 255>>]
      [] bt = 133 -> [size |-> 4, type_code |-> "i",
                      invalid |-> <<255, 255, 255, 127>>]
      [] bt = 134 -> [size |-> 4, type_code |-> "I",
                      invalid |-> <<255, 255, 255, 255>>]
      [] bt = 136 -> [size |-> 4, type_code |-> "f",
                      invalid |-> <<255, 255, 255, 255>>]
      [] bt = 140 -> [size |-> 4, type_code |-> "I", invalid |-> <<0, 0, 0, 0>>]

\* fit.py: the semantic type -> base type table (absent types give -1)
FIELD_TYPE_TO_BASE_TYPE(type) ==
    CASE type = "enum" -> 0 [] type = "sint8" -> 1 [] type = "uint8" -> 2
      [] type = "string" -> 7 [] type = "byte" -> 13
      [] type = "sint16" -> 131 [] type = "uint16" -> 132
      [] type = "sint32" -> 133 [] type = "uint32" -> 134
      [] type = "uint32z" -> 140
      [] type = "date_time" -> 134 [] type = "file" -> 0
      [] type = "manufacturer" -> 132 [] type = "mesg_num" -> 132
      [] type = "fit_base_type" -> 2
      [] OTHER -> -1

-----------------------------------------------------------------------------
(* profile.py: the part of the catalog the inputs of this model touch.     *)

FP(num, name, type, scale, offset) ==
    [num |-> num, name |-> name, type |-> type, scale |-> scale, offset |-> offset]

\* Profile['messages'][gmn]['fields'], as the sequence of its values
ProfileFields(gmn) ==
    CASE gmn = 0 ->
           << FP(0, "type", "file", <<1>>, <<0>>),
              FP(1, "manufacturer", "manufacturer", <<1>>, <<0>>),
              FP(2, "product", "uint16", <<1>>, <<0>>),
              FP(4, "time_created", "date_time", <<1>>, <<0>>),
              FP(8, "product_name", "string", <<1>>, <<0>>) >>
      [] gmn = 20 ->
           << FP(253, "timestamp", "date_time", <<1>>, <<0>>),
              FP(0, "position_lat", "sint32", <<1>>, <<0>>),
              FP(2, "altitude", "uint16", <<5>>, <<500>>),
              FP(3, "heart_rate", "uint8", <<1>>, <<0>>),
              FP(5, "distance", "uint32", <<100>>, <<0>>),
              FP(8, "compressed_speed_distance", "byte", <<100, 16>>, <<0, 0>>),
              FP(67, "left_pco", "sint8", <<1>>, <<0>>) >>
      [] gmn = 206 ->
           << FP(0, "developer_data_index", "uint8", <<1>>, <<0>>),
              FP(1, "field_definition_number", "uint8", <<1>>, <<0>>),
              FP(2, "fit_base_type_id", "fit_base_type", <<1>>, <<0>>),
              FP(3, "field_name", "string", <<1>>, <<0>>),
              FP(14, "native_mesg_num", "mesg_num", <<1>>, <<0>>),
              FP(15, "native_field_num", "uint8", <<1>>, <<0>>) >>
      [] OTHER -> << >>

\* message_type_num in Profile['messages']
InProfile(gmn) == gmn \in {0, 20, 206}

\* Profile['messages'][gmn]['messages_key']
MessagesKey(gmn) ==
    CASE gmn = 0 -> "file_id_mesgs" [] gmn = 20 -> "record_mesgs"
      [] gmn = 206 -> "field_description_mesgs"

\* field_type in Profile['types']
IsProfileType(type) == type \in {"file", "manufacturer", "mesg_num",
                                 "fit_base_type", "date_time"}

\* Profile['types'][type]: the numeric code of a string, -1 when it has none
EnumCode(type, cps) ==
    CASE type = "file" /\ cps = <<97, 99, 116>> -> 4
      [] type = "manufacturer" /\ cps = <<103, 97>> -> 1
      [] OTHER -> -1

\* the rank of a str key under Python's sorted(): the keys the inputs use
SortedNames == << "altitude", "compressed_speed_distance",
                  "developer_data_index", "developer_fields",
                  "distance", "field_definition_number", "field_name", "fit_base_type_id",
                  "heart_rate", "left_pco", "manufacturer", "native_field_num",
                  "native_mesg_num", "no_such_field", "position_lat",
                  "product", "product_name", "time_created", "timestamp", "type" >>
NameRank(s) == CHOOSE j \in 1..Len(SortedNames) : SortedNames[j] = s


-----------------------------------------------------------------------------
(* Strings.                                                                *)

\* str.encode('utf-8') of one code point (below 0x10000)
Utf8(cp) ==
    IF cp < 128 THEN <<cp>>
    ELSE IF cp < 2048 THEN <<192 + (cp \div 64), 128 + (cp % 64)>>
    ELSE <<224 + (cp \div 4096), 128 + ((cp \div 64) % 64), 128 + (cp % 64)>>

Encode(cps) == Concat([j \in 1..Len(cps) |-> Utf8(cps[j])])

\* str(n) of an int, as code points
RECURSIVE Digits(_)
Digits(n) == IF n < 10 THEN <<48 + n>> ELSE Digits(n \div 10) \o <<48 + (n % 10)>>
StrOfInt(n) == IF n < 0 THEN <<45>> \o Digits(-n) ELSE Digits(n)

\* str(item) of a str or an int
StrOf(v) == IF IsStr(v) THEN v.s ELSE StrOfInt(v.i)

\* int(s) of a str of decimal digits; any other str raises ValueError
IsDecimal(cps) == cps # <<>> /\ \A j \in 1..Len(cps) : cps[j] \in 48..57
RECURSIVE DecimalValue(_)
DecimalValue(cps) ==
    IF cps = <<>> THEN 0
    ELSE (10 * DecimalValue(SubSeq(cps, 1, Len(cps) - 1))) + (cps[Len(cps)] - 48)

-----------------------------------------------------------------------------
(* Results of the writing methods: the bytes appended to the buffer and    *)
(* the exception that ended the call ("" when it returned).                *)

Ok(bytes) == [bytes |-> bytes, err |-> ""]
Raise(bytes, e) == [bytes |-> bytes, err |-> e]

\* run the writes rs[1], rs[2], ... in order, stopping at the first that raises
RECURSIVE Chain(_)
Chain(rs) ==
    IF rs = <<>> THEN Ok(<<>>)
    ELSE IF Head(rs).err # "" THEN Head(rs)
    ELSE LET rest == Chain(Tail(rs))
         IN  [bytes |-> Head(rs).bytes \o rest.bytes, err |-> rest.err]

-----------------------------------------------------------------------------
(* _write_field_bytes(value, size, base_type): every call passes the       *)
(* invalid sentinel of a base type as value, here inv, its bytes.          *)

ZeroExtend(bytes, n) == [j \in 1..n |-> IF j <= Len(bytes) THEN bytes[j] ELSE 0]

WriteFieldBytes(inv, size) ==
    IF size \in {1, 2, 4, 8}
    THEN ZeroExtend(inv, size)      \* pack of int(value) & 0xFF.., or '<Q'
    ELSE Rep(inv[1], size)          \* bytes([int(value) & 0xFF] * size)

-----------------------------------------------------------------------------
(* _write_single_value(value, base_type, field_profile).  NoProfile is the *)
(* empty dict {} (or None) passed for a field without a profile.  The      *)
(* value [t |-> "invalid"] is the int base_type_def['invalid'] the array   *)
(* branch of _write_field_value passes.                                    *)

NoProfile == [none |-> TRUE]
HasProfile(fp) == fp # NoProfile
InvalidV == [t |-> "invalid"]
IsInvalidV(v) == v.t = "invalid"

\* the int an invalid sentinel of at most 2 bytes stands for
InvalidInt(bt) ==
    LET inv == BASE_TYPE_DEFINITIONS(bt).invalid
    IN  IF Len(inv) = 1 THEN inv[1] ELSE inv[1] + (256 * inv[2])

\* lines 1025-1029: the field profile asks for the scale/offset inversion
Scales(fp) ==
    /\ HasProfile(fp)
    /\ Len(fp.scale) = 1 /\ Len(fp.offset) = 1
    /\ (fp.scale[1] # 1 \/ fp.offset[1] # 0)

\* lines 1033-1038 on an int: round() of an int is that int
ScaleInt(n, fp) ==
    IF fp.offset[1] = 0 THEN n * fp.scale[1] ELSE (n + fp.offset[1]) * fp.scale[1]

\* round(n / d) of Python 3: to the nearest int, a tie to the even one
Round(n, d) ==
    LET q == n \div d
        r == n % d
    IN  IF 2 * r < d THEN q
        ELSE IF 2 * r > d THEN q + 1
        ELSE IF q % 2 = 0 THEN q ELSE q + 1

\* int(n / d): truncation toward zero
Trunc(n, d) == IF n >= 0 THEN n \div d ELSE -((-n) \div d)

\* a mutation of ScaleFloat: the offset is added after the scale is applied
ScaleFloatOffsetLast(n, d, fp) ==
    Round((n * fp.scale[1]) + (fp.offset[1] * d), d)

\* lines 1033-1038 on the float n/d: round(value * scale), or
\* round((value + offset) * scale)
ScaleFloat(n, d, fp) ==
    IF fp.offset[1] = 0 THEN Round(n * fp.scale[1], d)
    ELSE Round((n + (fp.offset[1] * d)) * fp.scale[1], d)

\* lines 1061-1076: struct.pack of int n under type_code; <<>> stands for
\* struct.error (the value is out of the format's range)
PackInt(type_code, n) ==
    CASE type_code = "b" -> IF n \in -128..127 THEN LE(n, 1) ELSE <<>>
      [] type_code = "B" -> LE(n, 1)                      \* int(value) & 0xFF
      [] type_code = "h" -> IF n \in -32768..32767 THEN LE(n, 2) ELSE <<>>
      [] type_code = "H" -> LE(n, 2)                      \* int(value) & 0xFFFF
      \* int(value) & 0xFFFFFFFF is n for n >= 0 and n + 2^32 >= 2^31 for n < 0
      [] type_code = "i" -> IF n >= 0 THEN LE(n, 4) ELSE <<>>
      [] type_code = "I" -> LE(n, 4)
      [] OTHER -> <<0>>                                   \* pack('<B', invalid)

WriteSingleValue(value, base_type, fp) ==
    LET def == BASE_TYPE_DEFINITIONS(base_type)
        invalid == WriteFieldBytes(def.invalid, def.size)
        \* lines 1025-1038
        scaled == IF Scales(fp) /\ ~IsNone(value)
                  THEN IF IsInt(value) THEN IntV(ScaleInt(value.i, fp))
                       ELSE IF IsFloat(value)
                            THEN IntV(ScaleFloat(value.n, value.d, fp))
                       ELSE IF IsInvalidV(value)
                            THEN IntV(ScaleInt(InvalidInt(base_type), fp))
                       ELSE [t |-> "TypeError"]
                  ELSE value
        \* lines 1041-1052
        v == IF scaled.t = "str" /\ base_type # BASE_TYPE("STRING")
                /\ HasProfile(fp) /\ IsProfileType(fp.type)
             THEN IF EnumCode(fp.type, scaled.s) # -1
                  THEN IntV(EnumCode(fp.type, scaled.s))
                  ELSE InvalidV
             ELSE scaled
    IN  CASE v.t = "TypeError" -> Raise(<<>>, "TypeError")
          [] v.t = "none" -> Ok(invalid)
          \* the sentinel of the type itself packs to its own bytes
          [] v.t = "invalid" -> Ok(invalid)
          [] v.t = "int" ->
               LET packed == PackInt(def.type_code, v.i)
               IN  Ok(IF packed = <<>> THEN invalid ELSE packed)
          [] v.t = "float" ->
               LET packed == PackInt(def.type_code, Trunc(v.n, v.d))
               IN  Ok(IF packed = <<>> THEN invalid ELSE packed)
          [] v.t = "str" ->
               IF IsDecimal(v.s)
               THEN LET packed == PackInt(def.type_code, DecimalValue(v.s))
                    IN  Ok(IF packed = <<>> THEN invalid ELSE packed)
               ELSE Ok(invalid)                \* int(value): ValueError, caught
          [] OTHER -> Ok(invalid)              \* int(value): TypeError, caught


-----------------------------------------------------------------------------
(* _write_field_value(value, size, base_type, field_profile)               *)

Take(bytes, n) == SubSeq(bytes, 1, Min2(n, Len(bytes)))

\* lines 980-984 and 988-992: pad with NULs, or truncate and end with a NUL
FitString(bytes, size) ==
    IF Len(bytes) < size
    THEN bytes \o Rep(0, size - Len(bytes))
    ELSE Take(Take(bytes, size - 1) \o <<0>>, size)

WriteFieldValue(value, size, base_type, fp) ==
    IF base_type = BASE_TYPE("STRING")
    THEN IF IsList(value)
         THEN LET items == SelectSeq(value.l, LAMBDA x : ~IsNone(x))
                  concatenated ==
                      Concat([j \in 1..Len(items) |-> Encode(StrOf(items[j])) \o <<0>>])
              IN  Ok(FitString(concatenated, size))
         ELSE IF IsStr(value) THEN Ok(FitString(Encode(value.s), size))
         ELSE Ok(Rep(0, size))
    ELSE IF IsList(value)
    THEN LET element_size == BASE_TYPE_DEFINITIONS(base_type).size
             num_elements == size \div element_size
         IN  Chain([j \in 1..num_elements |->
                      IF j <= Len(value.l)
                      THEN WriteSingleValue(value.l[j], base_type, fp)
                      ELSE WriteSingleValue(InvalidV, base_type, fp)])
    ELSE WriteSingleValue(value, base_type, fp)

-----------------------------------------------------------------------------
(* Type inference.  A type-and-size pair is [bt |-> base type, size |-> n].*)

TS(bt, size) == [bt |-> bt, size |-> size]

InInt32(n) == n >= -2147483647 - 1 /\ n <= 2147483647

\* lines 688-699, 832-849, 1164-1175, 1226-1239: the scalar ladder over the
\* range mn..mx of the observed ints
ScalarLadder(mn, mx) ==
    IF -128 <= mn /\ mx <= 127 THEN TS(BASE_TYPE("SINT8"), 1)
    ELSE IF 0 <= mn /\ mx <= 255 THEN TS(BASE_TYPE("UINT8"), 1)
    ELSE IF -32768 <= mn /\ mx <= 32767 THEN TS(BASE_TYPE("SINT16"), 2)
    ELSE IF 0 <= mn /\ mx <= 65535 THEN TS(BASE_TYPE("UINT16"), 2)
    ELSE IF InInt32(mn) /\ InInt32(mx) THEN TS(BASE_TYPE("SINT32"), 4)
    ELSE TS(BASE_TYPE("UINT32"), 4)

\* lines 805-816, 1255-1266: the element type of an int array over mn..mx
\* (max_val <= 4294967295 holds of every int of this model)
ArrayLadder(mn, mx) ==
    IF 0 <= mn /\ mx <= 255 THEN BASE_TYPE("UINT8")
    ELSE IF -128 <= mn /\ mx <= 127 THEN BASE_TYPE("SINT8")
    ELSE IF 0 <= mn /\ mx <= 65535 THEN BASE_TYPE("UINT16")
    ELSE IF -32768 <= mn /\ mx <= 32767 THEN BASE_TYPE("SINT16")
    ELSE IF 0 <= mn THEN BASE_TYPE("UINT32")
    ELSE BASE_TYPE("SINT32")

IntsOf(vs) == {vs[j].i : j \in {k \in 1..Len(vs) : IsInt(vs[k])}}
AllInt(vs) == \A j \in 1..Len(vs) : IsInt(vs[j])
AllStr(vs) == \A j \in 1..Len(vs) : IsStr(vs[j])
NonNone(vs) == SelectSeq(vs, LAMBDA x : ~IsNone(x))
FirstNonNone(vs) == IF NonNone(vs) = <<>> THEN NoneV ELSE Head(NonNone(vs))

\* Profile lookup by field name: the field profile, or NoProfile
LookupByName(fields, name) ==
    IF \E j \in 1..Len(fields) : fields[j].name = name
    THEN fields[CHOOSE j \in 1..Len(fields) : fields[j].name = name]
    ELSE NoProfile

\* _determine_field_type_and_size(field_profile, field_value): the
\* pre-analysis table field_type_definitions is always empty (line 1379)
DetermineFieldTypeAndSize(fp, field_value) ==
    IF fp = NoProfile
    THEN \* lines 1156-1180
         IF IsStr(field_value)
         THEN TS(BASE_TYPE("STRING"), Len(field_value.s) + 1)
         ELSE IF IsInt(field_value)
         THEN ScalarLadder(field_value.i, field_value.i)
         ELSE IF IsFloat(field_value) THEN TS(BASE_TYPE("FLOAT32"), 4)
         ELSE TS(BASE_TYPE("UINT8"), 1)
    ELSE LET \* lines 1183-1193
             value == IF IsStr(field_value) /\ IsProfileType(fp.type)
                      THEN IF EnumCode(fp.type, field_value.s) # -1
                           THEN IntV(EnumCode(fp.type, field_value.s))
                           ELSE IntV(0)
                      ELSE field_value
             base_type == FIELD_TYPE_TO_BASE_TYPE(fp.type)
         IN  IF base_type # -1
             THEN \* lines 1195-1214
                  IF fp.type = "string"
                  THEN TS(base_type, IF IsStr(value) THEN Len(value.s) + 1 ELSE 1)
                  ELSE IF IsList(value)
                  THEN TS(base_type,
                          Len(value.l) * BASE_TYPE_DEFINITIONS(base_type).size)
                  ELSE TS(base_type, BASE_TYPE_DEFINITIONS(base_type).size)
             ELSE \* lines 1216-1284
                  IF IsStr(value)
                  THEN TS(BASE_TYPE("STRING"), Min2(Len(value.s) + 1, 255))
                  ELSE IF IsFloat(value) THEN TS(BASE_TYPE("FLOAT32"), 4)
                  ELSE IF IsInt(value) THEN ScalarLadder(value.i, value.i)
                  ELSE IF IsList(value)
                  THEN IF value.l = <<>> THEN TS(BASE_TYPE("UINT8"), 1)
                       ELSE IF IntsOf(value.l) = {}
                       THEN TS(BASE_TYPE("UINT8"), Len(value.l))
                       ELSE LET elem_type == ArrayLadder(MinOf(IntsOf(value.l)),
                                                         MaxOf(IntsOf(value.l)))
                            IN  TS(elem_type, Len(value.l)
                                     * BASE_TYPE_DEFINITIONS(elem_type).size)
                  ELSE TS(BASE_TYPE("UINT8"), 1)


-----------------------------------------------------------------------------
(* _write_specific_message_definition.  A field definition is              *)
(* [field_id, size, base_type]; field_name_to_id is the sequence of its    *)
(* items [name, id], where a name is a message key or Dev(d), the str      *)
(* 'developer_field_<d>'.                                                  *)

Dev(d) == [dev |-> d]
IsDevName(n) == DOMAIN n = {"dev"}
FieldDef(id, ts) == [field_id |-> id, size |-> ts.size, base_type |-> ts.bt]
\* what one field contributes: a name mapping and at most one definition
Entry(name, id, defs) == [name |-> name, id |-> id, defs |-> defs]

\* sorted(string_fields) and sorted(numeric_fields)
RECURSIVE SortedStrKeys(_)
SortedStrKeys(S) ==
    IF S = {} THEN <<>>
    ELSE LET m == CHOOSE x \in S : \A y \in S : NameRank(x.name) <= NameRank(y.name)
         IN  <<m>> \o SortedStrKeys(S \ {m})

RECURSIVE SortedIntKeys(_)
SortedIntKeys(S) ==
    IF S = {} THEN <<>>
    ELSE LET m == CHOOSE x \in S : \A y \in S : x.num <= y.num
         IN  <<m>> \o SortedIntKeys(S \ {m})

\* dev_field_patterns: the sequence of its items [id, ty]
HasPattern(patterns, id) == \E j \in 1..Len(patterns) : patterns[j].id = id
PatternOf(patterns, id) ==
    patterns[CHOOSE j \in 1..Len(patterns) : patterns[j].id = id].ty
\* dev_field_patterns.get(dev_id, 7)
PatternOr7(patterns, id) ==
    IF HasPattern(patterns, id) THEN PatternOf(patterns, id) ELSE 7

\* lines 630-657 and 659-680: type and size from the pre-analysed type
DevTypeSizeByPattern(dev_value, expected_type) ==
    IF IsList(dev_value)
    THEN IF expected_type = 7
         THEN LET items == NonNone(dev_value.l)
                  total_length ==
                      SumSeq([j \in 1..Len(items) |-> Len(Encode(StrOf(items[j]))) + 1])
              IN  TS(BASE_TYPE("STRING"), Max2(total_length, 1))
         ELSE LET base_type ==
                      CASE expected_type = 1 -> BASE_TYPE("SINT8")
                        [] expected_type = 2 -> BASE_TYPE("UINT8")
                        [] expected_type \in {131, 132, 133, 134, 136} -> expected_type
                        [] expected_type = 142 -> BASE_TYPE("SINT8")
                        [] OTHER -> BASE_TYPE("UINT8")
              IN  TS(base_type,
                     Len(dev_value.l) * BASE_TYPE_DEFINITIONS(base_type).size)
    ELSE CASE expected_type \in {1, 2, 131, 132, 133, 134, 136} ->
                TS(expected_type, BASE_TYPE_DEFINITIONS(expected_type).size)
           [] expected_type = 7 ->
                TS(BASE_TYPE("STRING"),
                   IF IsStr(dev_value) THEN Len(Encode(dev_value.s)) + 1 ELSE 1)
           [] OTHER -> TS(BASE_TYPE("UINT8"), 1)

\* lines 683-716: type and size from the value itself
DevTypeSizeByValue(dev_value) ==
    IF IsStr(dev_value) THEN TS(BASE_TYPE("STRING"), Len(Encode(dev_value.s)) + 1)
    ELSE IF IsInt(dev_value) THEN ScalarLadder(dev_value.i, dev_value.i)
    ELSE IF IsFloat(dev_value) THEN TS(BASE_TYPE("FLOAT32"), 4)
    ELSE IF IsList(dev_value)
    THEN LET sample_element == FirstNonNone(dev_value.l)
         IN  IF ~IsNone(sample_element)
             THEN LET elem == DetermineFieldTypeAndSize(NoProfile, sample_element)
                  IN  TS(elem.bt,
                         Len(dev_value.l) * BASE_TYPE_DEFINITIONS(elem.bt).size)
             ELSE TS(BASE_TYPE("UINT8"), 1)
    ELSE TS(BASE_TYPE("UINT8"), 1)

\* a mutation of MappedFieldId: the developer ids are remapped from 200
MappedFieldIdFrom200(dev_field_id) == 200 + dev_field_id

\* line 616: the field id a developer field is declared under
MappedFieldId(dev_field_id) == 240 + dev_field_id

\* lines 608-726: the entries of the 'developer_fields' key
DevEntries(sample_values, patterns) ==
    LET dev_fields_dict ==
            IF Has(sample_values, Name("developer_fields"))
            THEN Get(sample_values, Name("developer_fields")) ELSE DictV(<<>>)
        items == IF IsDict(dev_fields_dict) THEN dev_fields_dict.d ELSE <<>>
        One(j) ==
            LET dev_field_id == items[j].k.num
                dev_value == items[j].v
                mapped_field_id == MappedFieldId(dev_field_id)
            IN  IF IsNone(dev_value) \/ mapped_field_id > 255 THEN <<>>
                ELSE LET ts == IF patterns # <<>> /\ HasPattern(patterns, dev_field_id)
                               THEN DevTypeSizeByPattern(
                                        dev_value, PatternOf(patterns, dev_field_id))
                               ELSE DevTypeSizeByValue(dev_value)
                     IN  << Entry(Dev(dev_field_id), mapped_field_id,
                                  <<FieldDef(mapped_field_id, ts)>>) >>
    IN  Concat([j \in 1..Len(items) |-> One(j)])

\* a mutation of NamedEntries: a key that names no catalog field is declared
\* under the id 254 as one uint8
NamedEntriesKeepingUnknown(fields, key, sample_values) ==
    LET field_profile == LookupByName(fields, key.name)
        sample == GetOrNone(sample_values, key)
        sample_values_list == IF IsList(sample) THEN sample.l ELSE <<sample>>
        sample_value == FirstNonNone(sample_values_list)
    IN  IF field_profile = NoProfile
        THEN << Entry(key, 254, <<FieldDef(254, TS(BASE_TYPE("UINT8"), 1))>>) >>
        ELSE IF ~IsNone(sample)
        THEN IF IsNone(sample_value)
             THEN << Entry(key, field_profile.num, <<>>) >>
             ELSE << Entry(key, field_profile.num,
                          <<FieldDef(field_profile.num,
                                     DetermineFieldTypeAndSize(field_profile,
                                                               sample_value))>>) >>
        ELSE \* lines 754-762: no FIT.BASE_TYPE key is a profile type name
             << Entry(key, field_profile.num,
                      <<FieldDef(field_profile.num,
                                 IF field_profile.type = "string"
                                 THEN TS(BASE_TYPE("STRING"), 1)
                                 ELSE TS(BASE_TYPE("UINT8"), 1))>>) >>

\* lines 728-768: the entries of one str key other than 'developer_fields'
NamedEntries(fields, key, sample_values) ==
    LET field_profile == LookupByName(fields, key.name)
        sample == GetOrNone(sample_values, key)
        sample_values_list == IF IsList(sample) THEN sample.l ELSE <<sample>>
        sample_value == FirstNonNone(sample_values_list)
    IN  IF field_profile = NoProfile THEN <<>>
        ELSE IF ~IsNone(sample)
        THEN IF IsNone(sample_value)
             THEN << Entry(key, field_profile.num, <<>>) >>
             ELSE << Entry(key, field_profile.num,
                          <<FieldDef(field_profile.num,
                                     DetermineFieldTypeAndSize(field_profile,
                                                               sample_value))>>) >>
        ELSE \* lines 754-762: no FIT.BASE_TYPE key is a profile type name
             << Entry(key, field_profile.num,
                      <<FieldDef(field_profile.num,
                                 IF field_profile.type = "string"
                                 THEN TS(BASE_TYPE("STRING"), 1)
                                 ELSE TS(BASE_TYPE("UINT8"), 1))>>) >>

\* lines 771-868: the entries of one int key
NumericEntries(key, sample_values) ==
    LET sample == GetOrNone(sample_values, key)
        sample_values_list == IF IsList(sample) THEN sample.l ELSE <<sample>>
        sample_value == FirstNonNone(sample_values_list)
        lists == SelectSeq(sample_values_list, IsList)
        all_array_values == Concat([j \in 1..Len(lists) |-> NonNone(lists[j].l)])
    IN  IF IsNone(sample) \/ IsNone(sample_value) THEN <<>>
        ELSE IF IsList(sample_value)
        THEN IF all_array_values = <<>> THEN <<>>
             ELSE LET elem_type ==
                          IF AllInt(all_array_values)
                          THEN ArrayLadder(MinOf(IntsOf(all_array_values)),
                                           MaxOf(IntsOf(all_array_values)))
                          ELSE BASE_TYPE("FLOAT32")
                  IN  << Entry(key, key.num,
                               <<FieldDef(key.num,
                                   TS(elem_type, Len(sample_value.l)
                                        * BASE_TYPE_DEFINITIONS(elem_type).size))>>) >>
        ELSE LET ts == IF AllInt(sample_values_list)
                       THEN ScalarLadder(MinOf(IntsOf(sample_values_list)),
                                         MaxOf(IntsOf(sample_values_list)))
                       ELSE IF AllStr(sample_values_list)
                       THEN TS(BASE_TYPE("STRING"),
                               1 + MaxOf({Len(Encode(sample_values_list[j].s)) :
                                            j \in 1..Len(sample_values_list)}))
                       ELSE TS(BASE_TYPE("UINT32"), 4)
             IN  << Entry(key, key.num, <<FieldDef(key.num, ts)>>) >>


\* message.keys() without the metadata key 'mesg_num'
MessageFields(message) == Keys(message) \ {Name("mesg_num")}

\* lines 870-883: the three bytes of one field definition; bytearray.append
\* raises ValueError for a value outside 0..255
FieldDefBytes(fd) ==
    IF fd.base_type \notin BaseTypeCodes THEN Raise(<<>>, "ValueError")
    ELSE IF fd.field_id \notin 0..255 THEN Raise(<<>>, "ValueError")
    ELSE IF fd.size \notin 0..255 THEN Raise(<<fd.field_id>>, "ValueError")
    ELSE Ok(<<fd.field_id, fd.size, fd.base_type>>)

\* the definition header byte 0x40 | (local_msg_num & 0x0F)
DefinitionHeader(local_msg_num) == 64 + (local_msg_num % 16)

\* lines 584-611: string_fields and numeric_fields, each sorted
StringFields(message_fields) == SortedStrKeys({k \in message_fields : IsStrKey(k)})
NumericFields(message_fields) == SortedIntKeys({k \in message_fields : IsIntKey(k)})

\* lines 613-868: the field definitions found for the sorted string keys,
\* then for the sorted numeric keys
FieldEntries(fields, message_fields, sample_message, patterns) ==
    Concat([j \in 1..Len(StringFields(message_fields)) |->
              IF StringFields(message_fields)[j] = Name("developer_fields")
              THEN DevEntries(sample_message, patterns)
              ELSE NamedEntries(fields, StringFields(message_fields)[j],
                                sample_message)])
    \o Concat([j \in 1..Len(NumericFields(message_fields)) |->
                 NumericEntries(NumericFields(message_fields)[j], sample_message)])

\* lines 579-582 and 870-890: the record written for field_defs; the bytes
\* appended, the exception if any, and the entry stored in _local_mesg_defs
DefinitionRecordOf(local_msg_num, global_msg_num, field_defs, field_name_to_id) ==
    LET head == <<DefinitionHeader(local_msg_num), 0, 0>>
        body == Chain([j \in 1..Len(field_defs) |-> FieldDefBytes(field_defs[j])])
    IN  IF global_msg_num > 65535
        THEN [bytes |-> head, err |-> "struct.error", def |-> <<>>]
        ELSE [bytes |-> head \o LE(global_msg_num, 2) \o <<Len(field_defs)>>
                          \o body.bytes,
              err |-> body.err,
              def |-> [global_msg_num |-> global_msg_num,
                       field_defs |-> field_defs,
                       field_name_to_id |-> field_name_to_id]]

DefinitionOfEntries(local_msg_num, global_msg_num, entries) ==
    DefinitionRecordOf(local_msg_num, global_msg_num,
        Concat([j \in 1..Len(entries) |-> entries[j].defs]),
        [j \in 1..Len(entries) |-> [name |-> entries[j].name, id |-> entries[j].id]])

\* the whole method
WriteSpecificMessageDefinition(local_msg_num, global_msg_num, fields,
                               message_fields, sample_message, patterns) ==
    DefinitionOfEntries(local_msg_num, global_msg_num,
        FieldEntries(fields, message_fields, sample_message, patterns))

-----------------------------------------------------------------------------
(* _write_message_data(local_msg_num, msg_profile, message)                *)

\* lines 906-910: the first name field_name_to_id maps to field_id
FieldNameOf(field_name_to_id, field_id) ==
    field_name_to_id[CHOOSE j \in 1..Len(field_name_to_id) :
                        /\ field_name_to_id[j].id = field_id
                        /\ \A h \in 1..(j - 1) : field_name_to_id[h].id # field_id].name

\* a mutation of DataHeader: the header names the next slot
DataHeaderNextSlot(local_msg_num) == (local_msg_num + 1) % 16

\* the data header byte local_msg_num & 0x0F
DataHeader(local_msg_num) == local_msg_num % 16

\* lines 902-964: what is written for one field definition of the record
FieldData(fields, message, msg_def, fd) ==
    LET field_name == FieldNameOf(msg_def.field_name_to_id, fd.field_id)
        invalid_value == BASE_TYPE_DEFINITIONS(fd.base_type).invalid
    IN  IF IsDevName(field_name)
        THEN LET developer_fields ==
                     IF Has(message, Name("developer_fields"))
                     THEN Get(message, Name("developer_fields")) ELSE DictV(<<>>)
             IN  IF ~IsDict(developer_fields) THEN Raise(<<>>, "TypeError")
                 ELSE IF Has(developer_fields.d, Num(field_name.dev))
                 THEN WriteFieldValue(Get(developer_fields.d, Num(field_name.dev)),
                                      fd.size, fd.base_type, NoProfile)
                 ELSE Ok(WriteFieldBytes(invalid_value, fd.size))
        ELSE IF ~Has(message, field_name)
        THEN Ok(WriteFieldBytes(invalid_value, fd.size))
        ELSE WriteFieldValue(Get(message, field_name), fd.size, fd.base_type,
                             IF IsStrKey(field_name)
                             THEN LookupByName(fields, field_name.name)
                             ELSE NoProfile)

\* the per-field results, in definition order
MessageDataFields(fields, message, msg_def) ==
    [j \in 1..Len(msg_def.field_defs) |->
        FieldData(fields, message, msg_def, msg_def.field_defs[j])]

WriteMessageData(local_msg_num, fields, message, msg_def) ==
    Chain(<<Ok(<<DataHeader(local_msg_num)>>)>>
          \o MessageDataFields(fields, message, msg_def))


-----------------------------------------------------------------------------
(* CrcCalculator.calculate_crc: the FIT CRC-16, and _create_header.        *)

\* The arithmetic of the CRC is written as functions: a function is applied
\* to the values of its arguments, so that no intermediate checksum is
\* computed twice.

\* a ^ b on naturals
Xor[a \in Nat, b \in Nat] ==
    IF a = 0 THEN b
    ELSE IF b = 0 THEN a
    ELSE (((a % 2) + (b % 2)) % 2) + (2 * Xor[a \div 2, b \div 2])

CrcTable == << 0, 52225, 55297, 5120, 61441, 15360, 10240, 58369,
               40961, 27648, 30720, 46081, 20480, 39937, 34817, 17408 >>

\* one half-byte step: (crc >> 4) ^ table[crc & 0xF] ^ table[nibble]
CrcNibble[crc \in Nat, nibble \in Nat] ==
    Xor[Xor[crc \div 16, CrcTable[(crc % 16) + 1]], CrcTable[nibble + 1]]

\* one byte: the low half-byte, then the high one
CrcUpdate[crc \in Nat, byte \in Nat] ==
    CrcNibble[CrcNibble[crc, byte % 16], byte \div 16]

\* calculate_crc(data, 0, len(data)): the loop over the bytes, from crc 0;
\* the range is halved so that the evaluation stays shallow
CalculateCrc(bytes) ==
    LET data == bytes
        CrcFrom[crc \in Nat, lo \in Nat, hi \in Nat] ==
            IF lo > hi THEN crc
            ELSE IF lo = hi THEN CrcUpdate[crc, data[lo]]
            ELSE CrcFrom[CrcFrom[crc, lo, (lo + hi) \div 2],
                         ((lo + hi) \div 2) + 1, hi]
    IN  CrcFrom[0, 1, Len(data)]

\* a mutation of HeaderFields: the size field counts the trailing checksum
HeaderFieldsCountingCrc(data_size) ==
    <<14, 2>> \o LE(21173, 2) \o LE(data_size + 2, 4) \o <<46, 70, 73, 84>>

\* the 12 header bytes before the header CRC (lines 83-99)
HeaderFields(data_size) ==
    <<14, 2>> \o LE(21173, 2) \o LE(data_size, 4) \o <<46, 70, 73, 84>>

\* a mutation of CreateHeader: the header checksum is left as zero
CreateHeaderZeroCrc(data_size) ==
    HeaderFields(data_size) \o <<0, 0>>

\* _create_header(data_size)
CreateHeader(data_size) ==
    HeaderFields(data_size) \o LE(CalculateCrc(HeaderFields(data_size)), 2)

\* lines 71-79 of write_to_bytes: the returned bytes for a data buffer
FileBytes(buffer) ==
    LET header == CreateHeader(Len(buffer))
        file_data == header \o buffer
    IN  file_data \o LE(CalculateCrc(file_data), 2)

-----------------------------------------------------------------------------
(* _write_messages and _write_message_type: which types are written, in    *)
(* which order, and by which path.                                         *)

\* _get_global_message_number(msg_type): -1 stands for None
GetGlobalMessageNumber(msg_type) ==
    CASE msg_type = "65280" -> 65280                 \* msg_type.isdigit()
      [] msg_type \in {MessagesKey(0), MessagesKey(20), MessagesKey(206)} ->
           CHOOSE g \in {0, 20, 206} : MessagesKey(g) = msg_type
      [] OTHER -> -1

\* a mutation of WriteOrder: file_id_mesgs is written where it sits in the
\* mapping
WriteOrderAsGiven(mapping) ==
    SelectSeq([j \in 1..Len(mapping) |->
                 [gmn |-> GetGlobalMessageNumber(mapping[j].key), key |-> j]],
              LAMBDA c : \/ mapping[c.key].key = "file_id_mesgs"
                         \/ mapping[c.key].msgs # <<>> /\ c.gmn # -1)

\* the (global number, index of the key) of each _write_message_type call
WriteOrder(mapping) ==
    LET idx == 1..Len(mapping)
        first == SelectSeq([j \in idx |-> [gmn |-> 0, key |-> j]],
                           LAMBDA c : mapping[c.key].key = "file_id_mesgs")
        rest == SelectSeq([j \in idx |->
                             [gmn |-> GetGlobalMessageNumber(mapping[j].key),
                              key |-> j]],
                          LAMBDA c : /\ mapping[c.key].key # "file_id_mesgs"
                                     /\ mapping[c.key].msgs # <<>>
                                     /\ c.gmn # -1)
    IN  first \o rest

\* lines 1317-1350: the type name inferred from the first value of a key
DynamicType(example_value) ==
    IF IsStr(example_value) THEN "string"
    ELSE IF IsInt(example_value)
    THEN LET n == example_value.i
         IN  IF -128 <= n /\ n <= 127 THEN "sint8"
             ELSE IF 0 <= n /\ n <= 255 THEN "uint8"
             ELSE IF -32768 <= n /\ n <= 32767 THEN "sint16"
             ELSE IF 0 <= n /\ n <= 65535 THEN "uint16"
             ELSE "uint32"
    ELSE "uint8"

\* _create_dynamic_profile: one field per key, named 'field_<key>'
DynamicProfileFields(msgs) ==
    LET keys == UNION {MessageFields(msgs[j]) : j \in 1..Len(msgs)}
        ordered == SortedStrKeys({k \in keys : IsStrKey(k)})
                   \o SortedIntKeys({k \in keys : IsIntKey(k)})
        Example(k) ==
            Get(msgs[CHOOSE j \in 1..Len(msgs) :
                       /\ Has(msgs[j], k)
                       /\ \A h \in 1..(j - 1) : ~Has(msgs[h], k)], k)
    IN  [j \in 1..Len(ordered) |->
           FP(ordered[j],
              IF IsStrKey(ordered[j]) THEN "field_" \o ordered[j].name
              ELSE "field_" \o ToString(ordered[j].num),
              DynamicType(Example(ordered[j])), <<1>>, <<0>>)]

\* msg_profile['fields'] of lines 130-134
MsgProfileFields(gmn, msgs) ==
    IF InProfile(gmn) THEN ProfileFields(gmn) ELSE DynamicProfileFields(msgs)

HasDevDict(message) ==
    /\ Has(message, Name("developer_fields"))
    /\ IsDict(Get(message, Name("developer_fields")))

\* lines 140-153: the path a message type takes
PathOf(gmn, msgs) ==
    IF gmn = 206 THEN "field_description"
    ELSE IF \E j \in 1..Len(msgs) : HasDevDict(msgs[j]) THEN "developer"
    ELSE "unified"


-----------------------------------------------------------------------------
(* The corpus analysis of the unified and developer-field paths.           *)

AllKeys(msgs) == UNION {MessageFields(msgs[j]) : j \in 1..Len(msgs)}

\* the non-None values of a key across the messages, in list order
RECURSIVE ValuesOf(_, _)
ValuesOf(msgs, key) ==
    IF msgs = <<>> THEN <<>>
    ELSE (IF Has(Head(msgs), key) /\ ~IsNone(Get(Head(msgs), key))
          THEN <<Get(Head(msgs), key)>> ELSE <<>>) \o ValuesOf(Tail(msgs), key)

\* lines 440-470: the keys with a non-None value in at least one message
MeaningfulFields(msgs) == {k \in AllKeys(msgs) : ValuesOf(msgs, k) # <<>>}

\* the dict of the lists of values of the keys in S (lines 429-434, 205-210)
ValueLists(msgs, S) ==
    LET ordered == SortedStrKeys({k \in S : IsStrKey(k)})
                   \o SortedIntKeys({k \in S : IsIntKey(k)})
    IN  [j \in 1..Len(ordered) |-> KV(ordered[j], ListV(ValuesOf(msgs, ordered[j])))]

\* lines 482: filtered_sample_message
UnifiedSample(msgs) == ValueLists(msgs, MeaningfulFields(msgs))

\* lines 194-203: the developer ids seen, and the non-None values of one
DevDictOf(message) ==
    IF HasDevDict(message) THEN Get(message, Name("developer_fields")).d ELSE <<>>
DevIds(msgs) == UNION {{k.num : k \in Keys(DevDictOf(msgs[j]))} : j \in 1..Len(msgs)}
RECURSIVE DevValuesOf(_, _)
DevValuesOf(msgs, id) ==
    IF msgs = <<>> THEN <<>>
    ELSE LET d == DevDictOf(Head(msgs))
         IN  (IF Has(d, Num(id)) /\ ~IsNone(Get(d, Num(id)))
              THEN <<Get(d, Num(id))>> ELSE <<>>) \o DevValuesOf(Tail(msgs), id)

\* lines 240-253 and 267-282: the type code for ints over mn..mx; sint8 is
\* what the branch writes for the SINT8 case (142 for arrays, 1 for scalars)
DevLadder(mn, mx, sint8) ==
    IF mn >= 0
    THEN IF mx <= 255 THEN 2 ELSE IF mx <= 65535 THEN 132 ELSE 134
    ELSE IF -128 <= mn /\ mx <= 127 THEN sint8
         ELSE IF -32768 <= mn /\ mx <= 32767 THEN 131
         ELSE 133

\* lines 214-293: the type code of one developer field from all its values
DevPattern(values) ==
    IF values = <<>> THEN 2
    ELSE IF \E j \in 1..Len(values) : IsList(values[j])
    THEN LET all_elements ==
                 Concat([j \in 1..Len(values) |->
                           IF IsList(values[j]) THEN NonNone(values[j].l)
                           ELSE <<values[j]>>])
         IN  IF all_elements = <<>> THEN 2
             ELSE IF AllStr(all_elements) THEN 7
             ELSE IF AllInt(all_elements)
             THEN DevLadder(MinOf(IntsOf(all_elements)),
                            MaxOf(IntsOf(all_elements)), 142)
             ELSE 7
    ELSE IF AllInt(values)
    THEN DevLadder(MinOf(IntsOf(values)), MaxOf(IntsOf(values)), 1)
    ELSE 7

\* dev_field_patterns
DevFieldPatterns(msgs) ==
    LET ids == SortedIntKeys({Num(d) : d \in DevIds(msgs)})
    IN  [j \in 1..Len(ids) |->
           [id |-> ids[j].num, ty |-> DevPattern(DevValuesOf(msgs, ids[j].num))]]

\* A signature: kind "fields" is frozenset(message_fields), kind "dev" the
\* pair with ('dev_types', ...) of lines 303-307, kind "unified" the one
\* definition of _write_unified_messages.
Sig(kind, fields, dev_types) ==
    [kind |-> kind, fields |-> fields, dev_types |-> dev_types]
UnifiedSig == Sig("unified", {}, <<>>)
FieldSignature(message) == Sig("fields", MessageFields(message), <<>>)
DevSignature(message, patterns) ==
    IF HasDevDict(message)
    THEN LET ids == SortedIntKeys(Keys(DevDictOf(message)))
         IN  Sig("dev", MessageFields(message),
                 [j \in 1..Len(ids) |->
                    <<ids[j].num, PatternOr7(patterns, ids[j].num)>>])
    ELSE FieldSignature(message)

\* lines 338-358: the representative developer value; TypeError when
\* min() or max() meets a value that is not a number
SampleDevValue(dev_value, expected_type) ==
    IF expected_type = 1
    THEN IF IsList(dev_value) THEN IntV(50)
         ELSE IF IsInt(dev_value) THEN IntV(Max2(-128, Min2(127, dev_value.i)))
         ELSE [t |-> "TypeError"]
    ELSE IF expected_type = 2
    THEN IF IsList(dev_value) THEN IntV(200)
         ELSE IF IsInt(dev_value) THEN IntV(Max2(0, Min2(255, dev_value.i)))
         ELSE [t |-> "TypeError"]
    ELSE dev_value

\* lines 330-358: sample_message of the developer path, and whether
\* building it raises
DevSample(message, msgs, patterns) ==
    LET regular == {k \in MeaningfulFields(msgs) : k # Name("developer_fields")}
        Item(j) ==
            LET key == message[j].k
            IN  IF key \in regular THEN KV(key, ListV(ValuesOf(msgs, key)))
                ELSE IF key = Name("developer_fields") /\ IsDict(message[j].v)
                THEN KV(key, DictV([h \in 1..Len(message[j].v.d) |->
                           KV(message[j].v.d[h].k,
                              SampleDevValue(message[j].v.d[h].v,
                                  PatternOr7(patterns, message[j].v.d[h].k.num)))]))
                ELSE message[j]
    IN  [j \in 1..Len(message) |-> Item(j)]

DevSampleRaises(sample) ==
    /\ HasDevDict(sample)
    /\ \E h \in 1..Len(DevDictOf(sample)) : DevDictOf(sample)[h].v.t = "TypeError"


-----------------------------------------------------------------------------
(* Slot allocation of the three paths.                                     *)

\* lines 388-391
UnifiedSlot(next) == IF next >= 16 THEN next % 16 ELSE next

\* lines 172-175
FieldDescriptionSlot(next) == IF next >= 16 THEN next % 16 ELSE next

\* a mutation of CacheHas: no signature is ever found in the cache
CacheNeverHas(cache, sig) == FALSE

\* definition_cache: the items [sig, slot] of the dict, in insertion order
CacheHas(cache, sig) == \E j \in 1..Len(cache) : cache[j].sig = sig
CacheGet(cache, sig) == cache[CHOOSE j \in 1..Len(cache) : cache[j].sig = sig].slot
CachePut(cache, sig, slot) ==
    IF CacheHas(cache, sig)
    THEN [j \in 1..Len(cache) |->
            IF cache[j].sig = sig THEN [sig |-> sig, slot |-> slot] ELSE cache[j]]
    ELSE Append(cache, [sig |-> sig, slot |-> slot])
CacheSlots(cache) == {cache[j].slot : j \in 1..Len(cache)}

\* lines 314-323: the first slot the cache of this type does not use
DeveloperSlot(next, cache) ==
    IF next >= 16
    THEN IF \E t \in 0..15 : t \notin CacheSlots(cache)
         THEN CHOOSE t \in 0..15 :
                 /\ t \notin CacheSlots(cache)
                 /\ \A u \in 0..(t - 1) : u \in CacheSlots(cache)
         ELSE next % 16
    ELSE next

\* lines 315-325: the counter only advances below 16
DeveloperNext(next) == IF next >= 16 THEN next ELSE next + 1

-----------------------------------------------------------------------------
(* The history of the records appended to the buffer, read back from the   *)
(* bytes written.                                                          *)

\* the (field id, size, base type) triples of a definition record's bytes
ParseFieldDefs(bytes) ==
    [j \in 1..bytes[6] |->
        [field_id |-> bytes[4 + (3 * j)],
         size |-> bytes[5 + (3 * j)],
         base_type |-> bytes[6 + (3 * j)]]]

DefRecord(bytes, sig, t, m, names) ==
    [kind |-> "def", slot |-> bytes[1] % 16, gmn |-> bytes[4] + (256 * bytes[5]),
     field_defs |-> ParseFieldDefs(bytes), bytes |-> bytes, sig |-> sig,
     ti |-> t, mi |-> m, names |-> names]

DataRecord(bytes, sig, t, m, gmn) ==
    [kind |-> "data", slot |-> bytes[1] % 16, gmn |-> gmn,
     field_defs |-> <<>>, bytes |-> bytes, sig |-> sig,
     ti |-> t, mi |-> m, names |-> <<>>]

NoDef == [global_msg_num |-> -1, field_defs |-> <<>>, field_name_to_id |-> <<>>]
NoDefs == [slot \in 0..15 |-> NoDef]
\* no definition record was written
NoDefinition == [bytes |-> <<>>, err |-> "", def |-> NoDef]

-----------------------------------------------------------------------------
(* The mappings an Encoder is constructed with.                            *)

D1(k, v) == << KV(Name(k), v) >>
Lists(P, n) == UNION {[1..k -> P] : k \in 0..n}
Mapping1(key, msgs) == << [key |-> key, msgs |-> msgs] >>

\* record messages without developer fields
RecordPool ==
    { D1("heart_rate", IntV(120)),
      D1("heart_rate", IntV(125)) \o D1("left_pco", IntV(-5)),
      D1("heart_rate", NoneV),
      D1("compressed_speed_distance", ListV(<<IntV(1), IntV(2), IntV(3)>>)),
      D1("compressed_speed_distance", IntV(5)),
      D1("altitude", IntV(100)),
      D1("altitude", StrV(<<97, 98, 99>>)),
      D1("position_lat", IntV(-40000)),
      D1("no_such_field", IntV(7)),
      << KV(Num(100), IntV(-200)) >>,
      D1("heart_rate", IntV(300)),
      D1("left_pco", IntV(200)),
      D1("altitude", FloatV(4115, 4)),
      D1("altitude", FloatV(1, 2)),
      D1("distance", FloatV(5, 4)),
      D1("distance", FloatV(1, 8)),
      D1("heart_rate", IntV(120)) \o << KV(Num(3), IntV(7)) >> }

DevFields(id, v) == D1("developer_fields", DictV(<< KV(Num(id), v) >>))

\* record messages with a developer_fields dict
DevPool ==
    { D1("heart_rate", IntV(120)) \o DevFields(0, IntV(5)),
      DevFields(0, IntV(300)),
      DevFields(0, IntV(-3)),
      DevFields(0, NoneV),
      DevFields(0, ListV(<<IntV(1), IntV(2)>>)),
      DevFields(1, StrV(<<97, 98>>)),
      DevFields(0, ListV(<<IntV(-1), IntV(2)>>)),
      D1("timestamp", IntV(1000)) \o DevFields(13, IntV(7)),
      D1("heart_rate", IntV(120)) \o DevFields(20, IntV(5)) }

FileIdPool ==
    { D1("type", StrV(<<97, 99, 116>>)) \o D1("manufacturer", StrV(<<103, 97>>)),
      D1("manufacturer", IntV(1)) \o D1("product", IntV(300)),
      D1("product_name", StrV(<<97, 98>>)),
      D1("product_name", StrV(<<97, 98, 99, 100>>)) }

\* the k-th of the messages with pairwise distinct key sets: field j of
\* names is present iff bit j of k is set
Bit(k, j) == (k \div (2 ^ (j - 1))) % 2
SigMessage(names, k, tail) ==
    LET present == SelectSeq([j \in 1..Len(names) |-> j], LAMBDA j : Bit(k, j) = 1)
    IN  [h \in 1..Len(present) |-> KV(Name(names[present[h]]), IntV(1))] \o tail

FieldDescriptionNames ==
    << "developer_data_index", "field_definition_number", "fit_base_type_id",
       "native_mesg_num", "native_field_num" >>
RecordNames == << "heart_rate", "left_pco", "position_lat", "timestamp", "altitude" >>

\* k messages of k distinct signatures, then the first signature again
ManyFieldDescriptions(k) ==
    [j \in 1..(k + 1) |->
        SigMessage(FieldDescriptionNames, IF j <= k THEN j ELSE 1, <<>>)]
ManyDeveloperRecords(k) ==
    [j \in 1..(k + 1) |->
        SigMessage(RecordNames, IF j <= k THEN j ELSE 1, DevFields(0, IntV(5)))]

OneRecord == << D1("heart_rate", IntV(120)) >>

\* messages that hold a key no catalog field is named by, next to one that
\* is, without and with a developer field
UnknownKeyRecords ==
    { << D1("heart_rate", IntV(120)) \o D1("no_such_field", IntV(7)) >>,
      << D1("no_such_field", IntV(7)) \o D1("heart_rate", IntV(120))
           \o DevFields(0, IntV(5)),
         D1("heart_rate", IntV(125)) \o DevFields(0, IntV(5)) >> }
OneFileId == << D1("manufacturer", IntV(1)) \o D1("product", IntV(300)) >>

Inputs ==
    {Mapping1("record_mesgs", ms) : ms \in Lists(RecordPool, MaxLen)}
    \cup {Mapping1("record_mesgs", ms) : ms \in Lists(DevPool, MaxLen) \ {<<>>}}
    \cup {Mapping1("file_id_mesgs", ms) : ms \in Lists(FileIdPool, MaxLen)}
    \cup {Mapping1("record_mesgs", OneRecord) \o Mapping1("file_id_mesgs", ms) :
            ms \in Lists(FileIdPool, 1)}
    \cup {Mapping1("file_id_mesgs", OneFileId) \o Mapping1("record_mesgs", ms) :
            ms \in Lists(RecordPool, 1)}
    \cup {Mapping1("record_mesgs", ms) : ms \in UnknownKeyRecords}
    \cup {Mapping1("record_mesgs", << D1("heart_rate", ListV(<<>>)) >>),
          Mapping1("record_mesgs",
                   << D1("heart_rate", ListV(<<>>)) \o DevFields(0, IntV(1)) >>)}
    \cup {Mapping1("record_mesgs",
                   << D1("developer_fields",
                         DictV(<< KV(Num(0), IntV(5)), KV(Num(1), IntV(300)) >>)) >>),
          Mapping1("record_mesgs",
                   << D1("developer_fields",
                         DictV(<< KV(Num(1), IntV(300)), KV(Num(0), IntV(5)) >>)) >>)}
    \cup {Mapping1("file_id_mesgs", << D1("product_name", StrV(<<233>>)) >>),
          Mapping1("file_id_mesgs", << D1("product_name", StrV(<<233, 97>>)) >>)}
    \cup {Mapping1("record_mesgs",
                   << D1("compressed_speed_distance", ListV(<<IntV(1), IntV(2)>>)),
                      D1("heart_rate", IntV(120)) >>)}
    \cup {Mapping1("record_mesgs",
                   << D1("altitude", ListV(<<IntV(100), IntV(200)>>)),
                      D1("altitude", ListV(<<IntV(100)>>)) >>),
          Mapping1("record_mesgs",
                   << D1("heart_rate", ListV(<<IntV(1), IntV(2)>>)),
                      D1("heart_rate", ListV(<<IntV(1)>>)) >>)}
    \cup {<<>>, Mapping1("bogus_mesgs", OneRecord), Mapping1("65280", OneRecord),
          Mapping1("65280", << <<KV(Num(3), IntV(300))>> >>)}
    \cup {Mapping1("field_description_mesgs", ManyFieldDescriptions(k)) :
            k \in 1..MaxSigs}
    \cup {Mapping1("field_description_mesgs", ManyFieldDescriptions(k))
            \o Mapping1("record_mesgs", OneRecord) : k \in (MaxSigs - 1)..MaxSigs}
    \cup {Mapping1("record_mesgs", ManyDeveloperRecords(k)) : k \in 1..MaxSigs}
    \cup {Mapping1("file_id_mesgs", OneFileId)
            \o Mapping1("record_mesgs", ManyDeveloperRecords(k)) :
            k \in (MaxSigs - 2)..MaxSigs}

\* the constructor argument: None, or a mapping
ArgNone == [is_none |-> TRUE, value |-> <<>>]
Arg(mapping) == [is_none |-> FALSE, value |-> mapping]
Args == {ArgNone} \cup {Arg(mapping) : mapping \in Inputs}

\* the file at the target path: absent, or its bytes
NoFile == [exists |-> FALSE, data |-> <<>>]
FileOf(bytes) == [exists |-> TRUE, data |-> bytes]

-----------------------------------------------------------------------------
(* The state machine: __init__, then write_to_bytes or write_to_file any   *)
(* number of times.  One action is one step of the single thread: the      *)
(* constructor, the start of write_to_bytes, one _write_message_type call  *)
(* up to its message loop, one iteration of a message loop, the return,    *)
(* and for write_to_file the open, the write and the except clause.        *)

Init ==
    /\ arg \in Args
    /\ caller = "bytes"
    /\ file = NoFile
    /\ result = "none"
    /\ pc = "new"
    /\ messages = <<>>
    /\ data_buffer = <<>>
    /\ local_mesg_defs = NoDefs
    /\ next_local_msg_num = 0
    /\ order = <<>>
    /\ ti = 1
    /\ mi = 1
    /\ definition_cache = <<>>
    /\ cur_slot = 0
    /\ records = <<>>
    /\ output = <<>>
    /\ prev_output = <<>>
    /\ calls = 0

\* the type being written
CurGmn == order[ti].gmn
CurMsgs == messages[order[ti].key].msgs
CurFields == MsgProfileFields(CurGmn, CurMsgs)
CurPath == PathOf(CurGmn, CurMsgs)

\* a mutation of InitRaises: an empty mapping is rejected as well
InitRaisesOnEmpty(messages_arg) == messages_arg.is_none \/ messages_arg.value = <<>>

\* line 25: messages is None
InitRaises(messages_arg) == messages_arg.is_none

\* __init__ (lines 19-33)
Construct ==
    /\ pc = "new"
    /\ IF InitRaises(arg)
       THEN pc' = "init_raised" /\ UNCHANGED messages
       ELSE pc' = "idle" /\ messages' = arg.value
    /\ UNCHANGED <<arg, caller, file, result, data_buffer, local_mesg_defs,
                   next_local_msg_num, order, ti, mi, definition_cache, cur_slot,
                   records, output, prev_output, calls>>

\* lines 65-66 and 107-113 of write_to_bytes and _write_messages, called
\* by the user ("bytes") or at line 46 of write_to_file ("file")
BeginEncode ==
    /\ \/ pc \in {"idle", "file_done"}
       \/ pc \in {"returned", "raised"} /\ caller = "bytes"
    /\ calls < MaxCalls
    /\ caller' \in {"bytes", "file"}
    /\ result' = "none"
    /\ UNCHANGED <<arg, file>>
    /\ data_buffer' = <<>>
    /\ local_mesg_defs' = NoDefs
    /\ order' = WriteOrder(messages)
    /\ ti' = 1
    /\ mi' = 1
    /\ pc' = "types"
    /\ records' = <<>>
    /\ prev_output' = output
    /\ output' = <<>>
    /\ calls' = calls + 1
    /\ UNCHANGED <<messages, next_local_msg_num, definition_cache, cur_slot>>

\* after the last message of a type: back to the loop of _write_messages
AfterMessage(last) ==
    IF last THEN pc' = "types" /\ ti' = ti + 1 /\ mi' = 1
    ELSE pc' = "msgs" /\ ti' = ti /\ mi' = mi + 1

\* _write_message_type (lines 127-153) and, on the unified path, lines
\* 385-485 of _write_unified_messages: the slot and the one definition
BeginMessageType ==
    /\ pc = "types"
    /\ ti <= Len(order)
    /\ IF CurPath = "unified"
       THEN \E slot \in {UnifiedSlot(next_local_msg_num)} :
            \E r \in {WriteSpecificMessageDefinition(slot, CurGmn, CurFields,
                          MeaningfulFields(CurMsgs), UnifiedSample(CurMsgs), <<>>)} :
                /\ next_local_msg_num' = next_local_msg_num + 1
                /\ cur_slot' = slot
                /\ data_buffer' = data_buffer \o r.bytes
                /\ IF r.err # ""
                   THEN /\ pc' = "raised"
                        /\ UNCHANGED <<local_mesg_defs, records, ti, mi>>
                   ELSE /\ local_mesg_defs' = [local_mesg_defs EXCEPT ![slot] = r.def]
                        /\ records' = Append(records,
                               DefRecord(r.bytes, UnifiedSig, ti, 0,
                                         r.def.field_name_to_id))
                        /\ IF CurMsgs = <<>>
                           THEN pc' = "types" /\ ti' = ti + 1 /\ mi' = 1
                           ELSE pc' = "msgs" /\ ti' = ti /\ mi' = 1
                /\ UNCHANGED definition_cache
       ELSE /\ definition_cache' = <<>>
            /\ pc' = "msgs"
            /\ mi' = 1
            /\ UNCHANGED <<data_buffer, local_mesg_defs, next_local_msg_num,
                           cur_slot, records, ti>>
    /\ UNCHANGED <<arg, caller, file, result>>
    /\ UNCHANGED <<messages, order, output, prev_output, calls>>

\* lines 488-489: one iteration of the loop of _write_unified_messages
WriteUnifiedMessage ==
    /\ pc = "msgs"
    /\ CurPath = "unified"
    /\ \E r \in {WriteMessageData(cur_slot, CurFields, CurMsgs[mi],
                                  local_mesg_defs[cur_slot])} :
           /\ data_buffer' = data_buffer \o r.bytes
           /\ IF r.err # ""
              THEN pc' = "raised" /\ UNCHANGED <<records, ti, mi>>
              ELSE /\ records' = Append(records,
                          DataRecord(r.bytes, UnifiedSig, ti, mi, CurGmn))
                   /\ AfterMessage(mi = Len(CurMsgs))
    /\ UNCHANGED <<arg, caller, file, result>>
    /\ UNCHANGED <<messages, local_mesg_defs, next_local_msg_num, order,
                   definition_cache, cur_slot, output, prev_output, calls>>

\* A cached signature: the data record under the cached slot
WriteCached(sig, local_msg_num) ==
    \E r \in {WriteMessageData(local_msg_num, CurFields, CurMsgs[mi],
                               local_mesg_defs[local_msg_num])} :
        /\ data_buffer' = data_buffer \o r.bytes
        /\ IF r.err # ""
           THEN pc' = "raised" /\ UNCHANGED <<records, ti, mi>>
           ELSE /\ records' = Append(records,
                       DataRecord(r.bytes, sig, ti, mi, CurGmn))
                /\ AfterMessage(mi = Len(CurMsgs))
        /\ UNCHANGED <<local_mesg_defs, next_local_msg_num, definition_cache>>

\* A new signature: slot is stored in the cache, the definition d is
\* written and stored, then the data record is written under it.  raised:
\* the exception that building the sample raised, "" when none
WriteNew(sig, slot, next, d, raised) ==
    /\ definition_cache' = CachePut(definition_cache, sig, slot)
    /\ next_local_msg_num' = next
    /\ IF raised # "" \/ d.err # ""
       THEN /\ data_buffer' = IF raised # "" THEN data_buffer
                              ELSE data_buffer \o d.bytes
            /\ pc' = "raised"
            /\ UNCHANGED <<local_mesg_defs, records, ti, mi>>
       ELSE \E r \in {WriteMessageData(slot, CurFields, CurMsgs[mi], d.def)} :
            /\ local_mesg_defs' = [local_mesg_defs EXCEPT ![slot] = d.def]
            /\ data_buffer' = data_buffer \o d.bytes \o r.bytes
            /\ IF r.err # ""
               THEN /\ pc' = "raised"
                    /\ records' = Append(records,
                           DefRecord(d.bytes, sig, ti, mi, d.def.field_name_to_id))
                    /\ UNCHANGED <<ti, mi>>
               ELSE /\ records' = records
                           \o << DefRecord(d.bytes, sig, ti, mi,
                                           d.def.field_name_to_id),
                                 DataRecord(r.bytes, sig, ti, mi, CurGmn) >>
                    /\ AfterMessage(mi = Len(CurMsgs))

\* lines 160-184: one iteration of _write_field_description_messages
WriteFieldDescriptionMessage ==
    /\ pc = "msgs"
    /\ CurPath = "field_description"
    /\ \E sig \in {FieldSignature(CurMsgs[mi])} :
          IF CacheHas(definition_cache, sig)
          THEN WriteCached(sig, CacheGet(definition_cache, sig))
          ELSE \E slot \in {FieldDescriptionSlot(next_local_msg_num)} :
               \E d \in {WriteSpecificMessageDefinition(slot, CurGmn, CurFields,
                             MessageFields(CurMsgs[mi]), CurMsgs[mi], <<>>)} :
                   WriteNew(sig, slot, next_local_msg_num + 1, d, "")
    /\ UNCHANGED <<arg, caller, file, result>>
    /\ UNCHANGED <<messages, order, cur_slot, output, prev_output, calls>>

\* lines 298-366: one iteration of the loop of _write_developer_field_messages
WriteDeveloperFieldMessage ==
    /\ pc = "msgs"
    /\ CurPath = "developer"
    /\ \E patterns \in {DevFieldPatterns(CurMsgs)} :
       \E sig \in {DevSignature(CurMsgs[mi], patterns)} :
          IF CacheHas(definition_cache, sig)
          THEN WriteCached(sig, CacheGet(definition_cache, sig))
          ELSE \E slot \in {DeveloperSlot(next_local_msg_num, definition_cache)} :
               \E sample \in {DevSample(CurMsgs[mi], CurMsgs, patterns)} :
               \E d \in {IF DevSampleRaises(sample) THEN NoDefinition
                         ELSE WriteSpecificMessageDefinition(slot, CurGmn,
                                  CurFields, MessageFields(CurMsgs[mi]), sample,
                                  patterns)} :
                   WriteNew(sig, slot, DeveloperNext(next_local_msg_num), d,
                            IF DevSampleRaises(sample) THEN "TypeError" ELSE "")
    /\ UNCHANGED <<arg, caller, file, result>>
    /\ UNCHANGED <<messages, order, cur_slot, output, prev_output, calls>>

\* lines 71-79: the header, the checksum and the return of write_to_bytes
ReturnBytes ==
    /\ pc = "types"
    /\ ti > Len(order)
    /\ output' = FileBytes(data_buffer)
    /\ pc' = "returned"
    /\ UNCHANGED <<arg, caller, file, result>>
    /\ UNCHANGED <<messages, data_buffer, local_mesg_defs, next_local_msg_num,
                   order, ti, mi, definition_cache, cur_slot, records,
                   prev_output, calls>>

\* line 47: open(filename, 'wb') creates or empties the file, or raises
\* OSError, which line 50 catches
OpenFile ==
    /\ pc = "returned"
    /\ caller = "file"
    /\ \E opened \in BOOLEAN :
          IF opened
          THEN pc' = "writing" /\ file' = FileOf(<<>>) /\ UNCHANGED result
          ELSE pc' = "file_done" /\ result' = "False" /\ UNCHANGED file
    /\ UNCHANGED <<arg, caller, messages, data_buffer, local_mesg_defs,
                   next_local_msg_num, order, ti, mi, definition_cache, cur_slot,
                   records, output, prev_output, calls>>

\* the numbers of bytes that may have reached the file when f.write or
\* the close of the with block ends: all of them, or half when it raises
WrittenLengths(data) == {Len(data) \div 2, Len(data)}

\* lines 48-49, and line 50 when the write raises OSError
WriteFile ==
    /\ pc = "writing"
    /\ \E n \in WrittenLengths(output) :
          /\ file' = FileOf(SubSeq(output, 1, n))
          /\ result' = IF n = Len(output) THEN "True" ELSE "False"
    /\ pc' = "file_done"
    /\ UNCHANGED <<arg, caller, messages, data_buffer, local_mesg_defs,
                   next_local_msg_num, order, ti, mi, definition_cache, cur_slot,
                   records, output, prev_output, calls>>

\* lines 50-55: an exception of write_to_bytes is caught
CatchException ==
    /\ pc = "raised"
    /\ caller = "file"
    /\ pc' = "file_done"
    /\ result' = "False"
    /\ UNCHANGED <<arg, caller, file, messages, data_buffer, local_mesg_defs,
                   next_local_msg_num, order, ti, mi, definition_cache, cur_slot,
                   records, output, prev_output, calls>>

Next ==
    \/ Construct
    \/ BeginEncode
    \/ BeginMessageType
    \/ WriteUnifiedMessage
    \/ WriteFieldDescriptionMessage
    \/ WriteDeveloperFieldMessage
    \/ ReturnBytes
    \/ OpenFile
    \/ WriteFile
    \/ CatchException

Spec == Init /\ [][Next]_vars

-----------------------------------------------------------------------------
(* Reading the record stream.                                              *)

DataIdx == {j \in 1..Len(records) : records[j].kind = "data"}
DefIdx == {j \in 1..Len(records) : records[j].kind = "def"}

\* the definitions of the slot of record j that precede it
DefsBefore(j) == {d \in DefIdx : d < j /\ records[d].slot = records[j].slot}

\* the most recent of them
LatestDef(j) == records[CHOOSE d \in DefsBefore(j) : \A e \in DefsBefore(j) : e <= d]

DeclaredSizes(def) == [f \in 1..Len(def.field_defs) |-> def.field_defs[f].size]

\* the bytes of field f of data record j under definition def: those of
\* them that the record has
FieldBytesBetween(bytes, lo, hi) ==
    IF lo > Min2(hi, Len(bytes)) THEN <<>> ELSE SubSeq(bytes, lo, Min2(hi, Len(bytes)))
FieldBytes(j, def, f) ==
    FieldBytesBetween(records[j].bytes,
                      2 + SumSeq(SubSeq(DeclaredSizes(def), 1, f - 1)),
                      1 + SumSeq(SubSeq(DeclaredSizes(def), 1, f)))

\* the message a record was written for
MessageOf(r) == messages[order[r.ti].key].msgs[r.mi]

\* the value a message holds for a field of a definition, None when absent
HeldValue(message, name) ==
    IF IsDevName(name) THEN GetOrNone(DevDictOf(message), Num(name.dev))
    ELSE GetOrNone(message, name)

\* the (type, message) pairs write_to_bytes has to write, in order
RECURSIVE PairsFrom(_)
PairsFrom(t) ==
    IF t > Len(order) THEN <<>>
    ELSE [m \in 1..Len(messages[order[t].key].msgs) |-> <<t, m>>] \o PairsFrom(t + 1)

\* the (type, message) pairs of the data records written, in order
WrittenPairs ==
    LET data == SelectSeq(records, LAMBDA r : r.kind = "data")
    IN  [j \in 1..Len(data) |-> <<data[j].ti, data[j].mi>>]

RecordBytes == Concat([j \in 1..Len(records) |-> records[j].bytes])

\* the range of a signed base type, as (low, high, width)
SignedRange(base_type) ==
    CASE base_type = 1 -> <<-128, 127, 1>>
      [] base_type = 131 -> <<-32768, 32767, 2>>
      [] base_type = 133 -> <<-2147483647 - 1, 2147483647, 4>>

\* the range of an integer base type
IntRange(base_type) ==
    CASE base_type \in {0, 2, 13} -> <<0, 255>>
      [] base_type = 132 -> <<0, 65535>>
      [] base_type = 134 -> <<0, 2147483647>>
      [] OTHER -> <<SignedRange(base_type)[1], SignedRange(base_type)[2]>>

\* field definition fd can hold value without truncating or invalidating it
Represents(fd, value) ==
    IF IsNone(value) THEN TRUE
    ELSE IF fd.base_type = BASE_TYPE("STRING")
    THEN IsStr(value) => Len(Encode(value.s)) + 1 <= fd.size
    ELSE IF IsList(value)
    THEN Len(value.l) * BASE_TYPE_DEFINITIONS(fd.base_type).size <= fd.size
    ELSE IF IsInt(value)
    THEN /\ IntRange(fd.base_type)[1] <= value.i
         /\ value.i <= IntRange(fd.base_type)[2]
    ELSE TRUE

\* the fields of definition def that a profile scale or offset transforms
Scaled(r, name) ==
    /\ IsStrKey(name)
    /\ Scales(LookupByName(MsgProfileFields(order[r.ti].gmn,
                                            messages[order[r.ti].key].msgs),
                           name.name))

\* the catalog profile of the field a name of record r stands for
FieldProfileOf(r, name) ==
    IF IsStrKey(name)
    THEN LookupByName(MsgProfileFields(order[r.ti].gmn,
                                       messages[order[r.ti].key].msgs),
                      name.name)
    ELSE NoProfile

\* the base types that hold integers
IntegerTypes == {0, 1, 2, 13, 131, 132, 133, 134}

\* the integer that little-endian bytes stand for under a base type
RECURSIVE FromLE(_)
FromLE(bytes) ==
    IF bytes = <<>> THEN 0 ELSE Head(bytes) + (256 * FromLE(Tail(bytes)))
DecodeInt(bytes, base_type) ==
    IF base_type \in {1, 131} /\ FromLE(bytes) >= 2 ^ ((8 * Len(bytes)) - 1)
    THEN FromLE(bytes) - (2 ^ (8 * Len(bytes)))
    ELSE FromLE(bytes)

Abs(n) == IF n < 0 THEN -n ELSE n

\* a number value as the fraction num/den
NumOf(value) == IF IsInt(value) THEN value.i ELSE value.n
DenOf(value) == IF IsInt(value) THEN 1 ELSE value.d

\* the messages of the type a record belongs to, and the path they take
MsgsOf(r) == messages[order[r.ti].key].msgs
PathOfRecord(r) == PathOf(order[r.ti].gmn, MsgsOf(r))

\* the ints observed for developer field d across msgs: scalars and array
\* elements
ObservedDevInts(msgs, d) ==
    IntsOf(Concat([j \in 1..Len(DevValuesOf(msgs, d)) |->
                     IF IsList(DevValuesOf(msgs, d)[j])
                     THEN DevValuesOf(msgs, d)[j].l
                     ELSE <<DevValuesOf(msgs, d)[j]>>]))

\* an int, or a list of ints
IsIntOrInts(value) == IsInt(value) \/ (IsList(value) /\ AllInt(value.l))

\* the bytes that hold exactly the int, or the ints of the list, value
ExactBytes(value, base_type) ==
    IF IsInt(value) THEN LE(value.i, BASE_TYPE_DEFINITIONS(base_type).size)
    ELSE Concat([k \in 1..Len(value.l) |->
                   LE(value.l[k].i, BASE_TYPE_DEFINITIONS(base_type).size)])

InRange(n, base_type) ==
    IntRange(base_type)[1] <= n /\ n <= IntRange(base_type)[2]

\* the messages of the t-th type written
TypeMsgs(t) == messages[order[t].key].msgs

\* the write of the t-th type is over: a later type is being written, or
\* the call has ended
TypeDone(t) == ti > t \/ pc \in {"returned", "raised"}

\* every message of msgs carries developer field d, some with the value
\* missing (None) and some with a value
SomeMissing(msgs, d) ==
    /\ \A m \in 1..Len(msgs) : HasDevDict(msgs[m]) /\ Has(DevDictOf(msgs[m]), Num(d))
    /\ \E m \in 1..Len(msgs) : IsNone(Get(DevDictOf(msgs[m]), Num(d)))
    /\ \E m \in 1..Len(msgs) : ~IsNone(Get(DevDictOf(msgs[m]), Num(d)))

\* the positions of the fields of definition def that stand for name
FieldsNamed(def, name) ==
    {g \in 1..Len(def.field_defs) :
        FieldNameOf(def.names, def.field_defs[g].field_id) = name}

-----------------------------------------------------------------------------
(* The properties.                                                         *)

\* C1: when a write_to_bytes call ends, it has written exactly one data
\* record for each message of each resolvable type, in list order.  The
\* call ends by raising for some values, and then messages are left
\* unwritten.
C1_OneDataRecordPerMessage ==
    pc \in {"returned", "raised"} => WrittenPairs = PairsFrom(1)

\* C2: every data record is one header byte followed by as many bytes as
\* the sizes of the latest definition of its slot add up to.
C2_DataRecordLength ==
    \A j \in DataIdx :
        Len(records[j].bytes) = 1 + SumSeq(DeclaredSizes(LatestDef(j)))

\* C3: the latest definition of a data record's slot is the one that was
\* synthesized for the signature of the record's own message.
C3_LatestDefinitionIsOwn ==
    \A j \in DataIdx :
        /\ LatestDef(j).sig = records[j].sig
        /\ LatestDef(j).ti = records[j].ti

\* C4: every data record is preceded by a definition of its slot, and the
\* latest such definition carries the global message number of the
\* record's message type.
C4_DefinitionPrecedesData ==
    \A j \in DataIdx :
        /\ DefsBefore(j) # {}
        /\ LatestDef(j).gmn = records[j].gmn

\* C4 witness: a data record of type 20 in a slot that, before the slot
\* numbers wrapped past 15, was defined for type 206.
C4_Witness ==
    \E j \in DataIdx :
        /\ records[j].gmn = 20
        /\ next_local_msg_num > 16
        /\ \E d \in DefsBefore(j) : records[d].gmn = 206

\* C5: the definition a data record is written under can represent every
\* value the record's message holds for the fields of the definition.
C5_DefinitionRepresentsValues ==
    \A j \in DataIdx :
        \A f \in 1..Len(LatestDef(j).field_defs) :
            LET name == FieldNameOf(LatestDef(j).names,
                                    LatestDef(j).field_defs[f].field_id)
            IN  ~Scaled(records[j], name)
                => Represents(LatestDef(j).field_defs[f],
                              HeldValue(MessageOf(records[j]), name))

\* C6: a write_to_bytes call that follows one that returned returns the
\* same bytes.
C6_SecondCallSameBytes ==
    (pc = "returned" /\ prev_output # <<>>) => output = prev_output

\* C7: the returned bytes are a 14-byte header, the N bytes of the records
\* and 2 checksum bytes; byte 0 is 14, bytes 4..7 are N as u32
\* little-endian, bytes 8..11 are '.FIT'; an empty mapping gives 16 bytes.
C7_FileLayout ==
    pc = "returned" =>
        /\ Len(output) = 14 + Len(RecordBytes) + 2
        /\ output[1] = 14
        /\ SubSeq(output, 5, 8) = LE(Len(RecordBytes), 4)
        /\ SubSeq(output, 9, 12) = <<46, 70, 73, 84>>
        /\ SubSeq(output, 15, 14 + Len(RecordBytes)) = RecordBytes
        /\ (messages = <<>> => Len(output) = 16)

\* C7 witness: a returned file with more than 255 bytes of records.
C7_Witness == pc = "returned" /\ Len(RecordBytes) > 255 /\ Len(output) > 255

\* C8: bytes 12..13 of the returned bytes are the CRC-16 of bytes 0..11,
\* and the last two bytes are the CRC-16 of all the bytes before them.
C8_Checksums ==
    pc = "returned" =>
        /\ SubSeq(output, 13, 14) = LE(CalculateCrc(SubSeq(output, 1, 12)), 2)
        /\ SubSeq(output, Len(output) - 1, Len(output))
             = LE(CalculateCrc(SubSeq(output, 1, Len(output) - 2)), 2)

\* C8 witness: a returned file that holds records.
C8_Witness == pc = "returned" /\ DataIdx # {} /\ Len(output) > 16

\* C9: a negative int in the range of the signed base type of its field,
\* with no scale or offset to apply, is written as its little-endian
\* two's complement at the width of the type.
C9_NegativeTwosComplement ==
    \A j \in DataIdx :
        \A f \in 1..Len(LatestDef(j).field_defs) :
            LET fd == LatestDef(j).field_defs[f]
                name == FieldNameOf(LatestDef(j).names, fd.field_id)
                value == HeldValue(MessageOf(records[j]), name)
            IN  (/\ fd.base_type \in {1, 131, 133}
                 /\ fd.size = SignedRange(fd.base_type)[3]
                 /\ ~Scaled(records[j], name)
                 /\ IsInt(value)
                 /\ value.i < 0
                 /\ SignedRange(fd.base_type)[1] <= value.i)
                => FieldBytes(j, LatestDef(j), f)
                     = LE(value.i, SignedRange(fd.base_type)[3])

\* C10: no write_to_bytes call ends by raising an exception.
C10_NoExceptionEscapes == pc # "raised"

\* C11: an int whose raw value, after the scale and offset of its field are
\* applied, is outside the range of the declared base type is written as
\* the invalid sentinel of that type over the whole field.
C11_OutOfRangeIsInvalid ==
    \A j \in DataIdx :
        \A f \in 1..Len(LatestDef(j).field_defs) :
            LET fd == LatestDef(j).field_defs[f]
                name == FieldNameOf(LatestDef(j).names, fd.field_id)
                value == HeldValue(MessageOf(records[j]), name)
                fp == FieldProfileOf(records[j], name)
            IN  (/\ IsInt(value)
                 /\ fd.base_type \in IntegerTypes
                 /\ fd.size = BASE_TYPE_DEFINITIONS(fd.base_type).size
                 /\ LET raw == IF Scales(fp) THEN (value.i + fp.offset[1]) * fp.scale[1]
                                ELSE value.i
                    IN  raw < IntRange(fd.base_type)[1]
                        \/ raw > IntRange(fd.base_type)[2])
                => FieldBytes(j, LatestDef(j), f)
                     = BASE_TYPE_DEFINITIONS(fd.base_type).invalid

C13_DeveloperCorpusTyping ==
    \A j \in DataIdx :
        \A f \in 1..Len(LatestDef(j).field_defs) :
            LET fd == LatestDef(j).field_defs[f]
                name == FieldNameOf(LatestDef(j).names, fd.field_id)
                value == HeldValue(MessageOf(records[j]), name)
            IN  (/\ PathOfRecord(records[j]) = "developer"
                 /\ IsDevName(name)
                 /\ IsIntOrInts(value))
                => /\ \A e \in DefIdx : \A g \in 1..Len(records[e].field_defs) :
                          (/\ records[e].ti = records[j].ti
                           /\ FieldNameOf(records[e].names,
                                          records[e].field_defs[g].field_id) = name)
                          => records[e].field_defs[g].base_type = fd.base_type
                   /\ \A n \in ObservedDevInts(MsgsOf(records[j]), name.dev) :
                          InRange(n, fd.base_type)
                   /\ FieldBytes(j, LatestDef(j), f) = ExactBytes(value, fd.base_type)

\* C14: when every message of a type on the developer-field path carries
\* developer field d, some with the value missing and some with a value,
\* then the write of the type does not raise, it emits a single
\* definition, which declares the field with a type that holds all the
\* ints present, and each missing instance is written as the invalid
\* sentinel of that type.
C14_MissingDeveloperValue ==
    \A t \in 1..Len(order) :
        \A d \in DevIds(TypeMsgs(t)) :
            (/\ PathOf(order[t].gmn, TypeMsgs(t)) = "developer"
             /\ SomeMissing(TypeMsgs(t), d)
             /\ TypeDone(t))
            => /\ ~(pc = "raised" /\ ti = t)
               /\ Cardinality({e \in DefIdx : records[e].ti = t}) = 1
               /\ \A e \in DefIdx :
                      records[e].ti = t
                      => /\ FieldsNamed(records[e], Dev(d)) # {}
                         /\ \A g \in FieldsNamed(records[e], Dev(d)) :
                                \A n \in ObservedDevInts(TypeMsgs(t), d) :
                                    InRange(n, records[e].field_defs[g].base_type)
               /\ \A j \in DataIdx :
                      (/\ records[j].ti = t
                       /\ IsNone(Get(DevDictOf(MessageOf(records[j])), Num(d))))
                      => \A g \in FieldsNamed(LatestDef(j), Dev(d)) :
                             FieldBytes(j, LatestDef(j), g)
                               = WriteFieldBytes(
                                   BASE_TYPE_DEFINITIONS(
                                       LatestDef(j).field_defs[g].base_type).invalid,
                                   LatestDef(j).field_defs[g].size)

\* C15: the field ids of an emitted definition are pairwise distinct, no
\* two names of its fields share an id (of a developer field and a named
\* field that would, the developer field is dropped), and a named field
\* whose id another key of the message maps to is written from its own
\* value (here: when it holds an int of its declared type).
C15_FieldIdsDistinct ==
    /\ \A e \in DefIdx :
          /\ \A g, h \in 1..Len(records[e].field_defs) :
                 g # h => records[e].field_defs[g].field_id
                            # records[e].field_defs[h].field_id
          /\ \A a, b \in 1..Len(records[e].names) :
                 a # b => records[e].names[a].id # records[e].names[b].id
    /\ \A j \in DataIdx :
          \A a \in 1..Len(LatestDef(j).names) :
             LET name == LatestDef(j).names[a].name
                 value == HeldValue(MessageOf(records[j]), name)
                 own == {g \in 1..Len(LatestDef(j).field_defs) :
                            LatestDef(j).field_defs[g].field_id
                              = LatestDef(j).names[a].id}
             IN  (/\ ~IsDevName(name)
                  /\ IsStrKey(name)
                  /\ \E b \in 1..Len(LatestDef(j).names) :
                        /\ b # a
                        /\ LatestDef(j).names[b].id = LatestDef(j).names[a].id
                  /\ IsInt(value)
                  /\ ~Scales(FieldProfileOf(records[j], name))
                  /\ own # {}
                  /\ \E g \in own :
                        /\ LatestDef(j).field_defs[g].base_type \in IntegerTypes
                        /\ InRange(value.i, LatestDef(j).field_defs[g].base_type))
                 => \E g \in own :
                        /\ LatestDef(j).field_defs[g].base_type \in IntegerTypes
                        /\ InRange(value.i, LatestDef(j).field_defs[g].base_type)
                        /\ FieldBytes(j, LatestDef(j), g)
                             = LE(value.i, LatestDef(j).field_defs[g].size)

\* C16: a definition written for a message declares each developer field
\* d of the message that has a value under the id 240 + d when that is at
\* most 255; otherwise it leaves the field out, still declares the named
\* catalog fields of the message, and the data record of the message is
\* written with only the declared fields.  Every id a developer field is
\* declared under is in 240..255.
C16_DeveloperFieldRemap ==
    \A e \in DefIdx :
        /\ \A a \in 1..Len(records[e].names) :
               IsDevName(records[e].names[a].name)
               => /\ records[e].names[a].id \in 240..255
                  /\ records[e].names[a].id = 240 + records[e].names[a].name.dev
        /\ (records[e].mi > 0 /\ PathOfRecord(records[e]) # "unified")
           => \A d \in {k.num : k \in Keys(DevDictOf(MessageOf(records[e])))} :
                 ~IsNone(Get(DevDictOf(MessageOf(records[e])), Num(d)))
                 => IF 240 + d <= 255
                    THEN /\ \E a \in 1..Len(records[e].names) :
                               records[e].names[a] = [name |-> Dev(d), id |-> 240 + d]
                         /\ \E g \in 1..Len(records[e].field_defs) :
                               records[e].field_defs[g].field_id = 240 + d
                    ELSE /\ \A a \in 1..Len(records[e].names) :
                               records[e].names[a].name # Dev(d)
                         /\ \A k \in Keys(MessageOf(records[e])) :
                               (/\ k # Name("developer_fields")
                                /\ FieldProfileOf(records[e], k) # NoProfile
                                /\ ~IsNone(Get(MessageOf(records[e]), k)))
                               => \E g \in 1..Len(records[e].field_defs) :
                                      records[e].field_defs[g].field_id
                                        = FieldProfileOf(records[e], k).num
                         /\ \E j \in DataIdx :
                               /\ j = e + 1
                               /\ records[j].ti = records[e].ti
                               /\ records[j].mi = records[e].mi
                               /\ Len(records[j].bytes)
                                    = 1 + SumSeq(DeclaredSizes(records[e]))

\* C16 witness: the definition and the data record of a message that holds
\* heart_rate and the developer field 20, which 240 + 20 > 255 leaves out.
C16_Witness ==
    \E j \in DataIdx :
        /\ Has(DevDictOf(MessageOf(records[j])), Num(20))
        /\ Has(MessageOf(records[j]), Name("heart_rate"))
        /\ Len(LatestDef(j).field_defs) = 1
        /\ LatestDef(j).field_defs[1].field_id = 3
        /\ records[j].bytes = <<records[j].slot, 120>>

\* C17: constructing an Encoder with None raises at once, nothing is
\* stored, encoded or written and no call can follow; with any mapping, the
\* empty one and one with an empty message list included, the constructor
\* returns and the encoder holds that mapping unchanged from then on.
C17_ConstructorNone ==
    /\ pc = "init_raised"
       => /\ arg = ArgNone
          /\ messages = <<>> /\ output = <<>> /\ data_buffer = <<>>
          /\ records = <<>> /\ calls = 0 /\ file = NoFile /\ result = "none"
    /\ arg = ArgNone => pc \in {"new", "init_raised"}
    /\ pc \notin {"new", "init_raised"}
       => /\ ~arg.is_none
          /\ messages = arg.value

\* C17 witness: the constructor has raised for None.
C17_Witness ==
    pc = "init_raised" /\ arg.is_none /\ output = <<>>

\* the file holds a part of data only: a proper prefix of it
PartialFileOf(data) ==
    /\ file.exists
    /\ Len(file.data) < Len(data)
    /\ file.data = SubSeq(data, 1, Len(file.data))

\* C18: write_to_file ends with True or False and never with an exception;
\* when it has returned True the file holds the complete output of
\* write_to_bytes; when it has returned False no partial output is left
\* at the path.
C18_WriteToFile ==
    /\ pc = "file_done" => result \in {"True", "False"}
    /\ (pc = "raised" /\ caller = "file") => ENABLED CatchException
    /\ result = "True" => (pc = "file_done" /\ file.exists /\ file.data = output)
    /\ (pc = "file_done" /\ result = "False") => ~PartialFileOf(output)

\* the ints of an int or of a list of ints
OwnInts(value) == IF IsInt(value) THEN {value.i} ELSE IntsOf(value.l)

\* the values held for a field across msgs, and the ints among them:
\* scalars and array elements
ValuesHeld(msgs, name) ==
    {HeldValue(msgs[m], name) : m \in 1..Len(msgs)} \ {NoneV}
ObservedInts(msgs, name) ==
    UNION {OwnInts(value) : value \in {v \in ValuesHeld(msgs, name) : IsIntOrInts(v)}}

\* the messages a definition is written for: its own message, or on the
\* unified path all the messages of the type
DefMsgs(r) == IF r.mi > 0 THEN <<MessageOf(r)>> ELSE MsgsOf(r)

\* the smallest of the widths 1, 2 and 4 bytes that holds 0..mx
SmallestWidth(mx) == IF mx <= 255 THEN 1 ELSE IF mx <= 65535 THEN 2 ELSE 4

SignedTypes == {1, 131, 133}

\* field g of definition e was typed from observed ints: its id is declared
\* once, it stands for a developer field or a numeric key, and the
\* messages of the definition hold ints or lists of ints for it
Inferred(e, g) ==
    /\ \A h \in 1..Len(records[e].field_defs) :
           h # g => records[e].field_defs[h].field_id # records[e].field_defs[g].field_id
    /\ LET name == FieldNameOf(records[e].names, records[e].field_defs[g].field_id)
       IN  /\ IsDevName(name) \/ IsIntKey(name)
           /\ \A v \in ValuesHeld(DefMsgs(records[e]), name) : IsIntOrInts(v)
           /\ ObservedInts(DefMsgs(records[e]), name) # {}

\* C19: a field typed from observed ints gets an integer type whose range
\* holds every int of the messages the definition is written for; it is a
\* signed type when one of them is negative; and when no int observed for
\* the field across the messages of the type is negative, the type is no
\* wider than the smallest of 8, 16 and 32 bits that holds them all.
C19_InferredTypeLadder ==
    \A e \in DefIdx : \A g \in 1..Len(records[e].field_defs) :
        Inferred(e, g)
        => LET fd == records[e].field_defs[g]
               name == FieldNameOf(records[e].names, fd.field_id)
               own == ObservedInts(DefMsgs(records[e]), name)
               all == ObservedInts(MsgsOf(records[e]), name)
           IN  /\ fd.base_type \in IntegerTypes
               /\ \A n \in own : InRange(n, fd.base_type)
               /\ (\E n \in own : n < 0) => fd.base_type \in SignedTypes
               /\ (\A n \in all : n >= 0)
                  => BASE_TYPE_DEFINITIONS(fd.base_type).size
                       <= SmallestWidth(MaxOf(all))

\* C20: a field typed from observed ints gets a signed type only if an int
\* observed for the field across the messages of the type is negative.
C20_SignedOnlyIfNegative ==
    \A e \in DefIdx : \A g \in 1..Len(records[e].field_defs) :
        (/\ Inferred(e, g)
         /\ records[e].field_defs[g].base_type \in SignedTypes)
        => \E n \in ObservedInts(MsgsOf(records[e]),
                                FieldNameOf(records[e].names,
                                            records[e].field_defs[g].field_id)) :
               n < 0

\* C21: in every file returned, byte 1 of the header (the protocol
\* version) is at least 16 and bytes 2..3, the profile version as u16
\* little-endian, are positive.
C21_HeaderVersions ==
    pc = "returned" =>
        /\ output[2] >= 16
        /\ FromLE(SubSeq(output, 3, 4)) > 0

\* no field of the profile is named name
NotNamedIn(fields, name) == \A i \in 1..Len(fields) : fields[i].name # name

\* a key of the message that is a string naming no catalog field of the
\* message type
UnknownKey(r, k) ==
    /\ IsStrKey(k)
    /\ k # Name("developer_fields")
    /\ NotNamedIn(MsgProfileFields(order[r.ti].gmn, MsgsOf(r)), k.name)

\* every field of the message is named by a string and holds an int, and
\* every developer field holds an int
PlainMessage(message) ==
    /\ \A k \in Keys(message) :
           /\ IsStrKey(k)
           /\ k # Name("developer_fields") => IsInt(Get(message, k))
    /\ \A d \in Keys(DevDictOf(message)) : IsInt(Get(DevDictOf(message), d))

\* C22: a string key that names no catalog field of its message type is in
\* no definition of the type and adds no bytes to the data record of its
\* message; the other fields of the message are declared, a catalog field
\* without scale whose int is in the range of its declared type is written
\* as that int, and a type whose messages hold only ints under string keys
\* is written without an exception.
C22_UnknownFieldDropped ==
    /\ \A e \in DefIdx : \A a \in 1..Len(records[e].names) :
           ~UnknownKey(records[e], records[e].names[a].name)
    /\ \A j \in DataIdx :
           (\E k \in Keys(MessageOf(records[j])) : UnknownKey(records[j], k))
           => /\ Len(records[j].bytes) <= 1 + SumSeq(DeclaredSizes(LatestDef(j)))
              /\ PlainMessage(MessageOf(records[j]))
                 => \A k \in Keys(MessageOf(records[j])) :
                        (/\ k # Name("developer_fields")
                         /\ ~UnknownKey(records[j], k))
                        => /\ FieldsNamed(LatestDef(j), k) # {}
                           /\ \A g \in FieldsNamed(LatestDef(j), k) :
                                  (/\ ~Scales(FieldProfileOf(records[j], k))
                                   /\ LatestDef(j).field_defs[g].base_type
                                        \in IntegerTypes
                                   /\ InRange(Get(MessageOf(records[j]), k).i,
                                              LatestDef(j).field_defs[g].base_type))
                                  => FieldBytes(j, LatestDef(j), g)
                                       = LE(Get(MessageOf(records[j]), k).i,
                                            LatestDef(j).field_defs[g].size)
    /\ \A t \in 1..Len(order) :
           (/\ \A m \in 1..Len(TypeMsgs(t)) : PlainMessage(TypeMsgs(t)[m])
            /\ TypeDone(t) /\ pc # "raised")
           => \A m \in 1..Len(TypeMsgs(t)) :
                  \E j \in DataIdx : records[j].ti = t /\ records[j].mi = m
    /\ \A t \in 1..Len(order) :
           (\A m \in 1..Len(TypeMsgs(t)) : PlainMessage(TypeMsgs(t)[m]))
           => ~(pc = "raised" /\ ti = t)

\* C22 witness: the data record of a message that holds heart_rate and a
\* key that names no catalog field: one declared field, one value byte.
C22_Witness ==
    \E j \in DataIdx :
        /\ Has(MessageOf(records[j]), Name("no_such_field"))
        /\ Has(MessageOf(records[j]), Name("heart_rate"))
        /\ ~HasDevDict(MessageOf(records[j]))
        /\ Len(LatestDef(j).field_defs) = 1
        /\ records[j].bytes = <<records[j].slot, 120>>

\* C23: no definition is emitted in which a field has a base type outside
\* the base-type table or a declared size of zero: the encode fails
\* instead.
C23_NoInvalidDefinition ==
    \A e \in DefIdx : \A g \in 1..Len(records[e].field_defs) :
        /\ records[e].field_defs[g].base_type \in BaseTypeCodes
        /\ records[e].field_defs[g].size > 0

\* the message with the insertion order of its keys, and of the keys of its
\* developer_fields mapping, reversed
Reverse(s) == [j \in 1..Len(s) |-> s[(Len(s) + 1) - j]]
ReverseKeys(message) ==
    Reverse([j \in 1..Len(message) |->
               IF message[j].k = Name("developer_fields") /\ IsDict(message[j].v)
               THEN KV(message[j].k, DictV(Reverse(message[j].v.d)))
               ELSE message[j]])

\* the records a fresh encoder writes for a type that holds the one
\* message, on the developer-field path
FreshDeveloperRecords(gmn, fields, message, patterns) ==
    LET d == WriteSpecificMessageDefinition(DeveloperSlot(0, <<>>), gmn, fields,
                 MessageFields(message),
                 DevSample(message, <<message>>, patterns), patterns)
    IN  d.bytes \o WriteMessageData(DeveloperSlot(0, <<>>), fields, message,
                                    d.def).bytes

\* the first call has returned the encoding of one type that holds one
\* message with a developer_fields mapping
OneDeveloperMessage ==
    /\ pc = "returned" /\ calls = 1
    /\ Len(order) = 1
    /\ Len(TypeMsgs(1)) = 1
    /\ PathOf(order[1].gmn, TypeMsgs(1)) = "developer"

\* C24: the records written for a message are those a fresh encoder
\* writes for the same message with the insertion order of its keys, and
\* of the keys of its developer_fields mapping, reversed.
C24_KeyOrderIrrelevant ==
    OneDeveloperMessage
    => RecordBytes
         = FreshDeveloperRecords(order[1].gmn,
               MsgProfileFields(order[1].gmn, TypeMsgs(1)),
               ReverseKeys(TypeMsgs(1)[1]),
               DevFieldPatterns(<<ReverseKeys(TypeMsgs(1)[1])>>))

\* the definition in force for data record j was written for the message
\* of the record, or for a type that holds that message only
OwnDefinition(j) ==
    /\ LatestDef(j).ti = records[j].ti
    /\ \/ LatestDef(j).mi = records[j].mi
       \/ Len(MsgsOf(records[j])) = 1

\* C25: a field declared as a string for a message that holds a string
\* has the size of the UTF-8 encoding of the string plus one, and the data
\* record holds the whole encoding followed by a NUL.
C25_StringSize ==
    \A j \in DataIdx : \A g \in 1..Len(LatestDef(j).field_defs) :
        (/\ OwnDefinition(j)
         /\ LatestDef(j).field_defs[g].base_type = BASE_TYPE("STRING")
         /\ FieldsNamed(LatestDef(j),
                        FieldNameOf(LatestDef(j).names,
                                    LatestDef(j).field_defs[g].field_id)) = {g}
         /\ IsStr(HeldValue(MessageOf(records[j]),
                            FieldNameOf(LatestDef(j).names,
                                        LatestDef(j).field_defs[g].field_id))))
        => /\ LatestDef(j).field_defs[g].size
                = Len(Encode(HeldValue(MessageOf(records[j]),
                                FieldNameOf(LatestDef(j).names,
                                    LatestDef(j).field_defs[g].field_id)).s)) + 1
           /\ FieldBytes(j, LatestDef(j), g)
                = Encode(HeldValue(MessageOf(records[j]),
                             FieldNameOf(LatestDef(j).names,
                                 LatestDef(j).field_defs[g].field_id)).s) \o <<0>>

\* the definition records written for the t-th type, and the signatures of
\* its messages: the set of keys, with the developer ids and their corpus
\* types where the message carries a developer_fields mapping
DefsOf(t) == {e \in DefIdx : records[e].ti = t}
SignatureOf(t, m) ==
    IF order[t].gmn = 206 THEN FieldSignature(TypeMsgs(t)[m])
    ELSE DevSignature(TypeMsgs(t)[m], DevFieldPatterns(TypeMsgs(t)))
SignaturesOf(t) == {SignatureOf(t, m) : m \in 1..Len(TypeMsgs(t))}
NoDeveloperFields(t) == \A m \in 1..Len(TypeMsgs(t)) : ~HasDevDict(TypeMsgs(t)[m])

\* the types whose write is over in a call that has not raised
WrittenTypes == {t \in 1..Len(order) : TypeDone(t) /\ pc # "raised"}

\* one definition per distinct signature of the t-th type: a message whose
\* signature an earlier message has is written under the slot of that
\* message, without a definition of its own
OnePerSignature(t) ==
    /\ Cardinality(DefsOf(t)) = Cardinality(SignaturesOf(t))
    /\ \A j \in DataIdx :
           (/\ records[j].ti = t
            /\ \E m \in 1..(records[j].mi - 1) :
                   SignatureOf(t, m) = SignatureOf(t, records[j].mi))
           => /\ \A e \in DefsOf(t) : records[e].mi # records[j].mi
              /\ \A i \in DataIdx :
                     (/\ records[i].ti = t
                      /\ records[i].mi < records[j].mi
                      /\ SignatureOf(t, records[i].mi)
                           = SignatureOf(t, records[j].mi))
                     => records[i].slot = records[j].slot

\* one definition for the t-th type, over the catalog fields that hold a
\* value other than None in at least one message
OneOverUnion(t) ==
    /\ Cardinality(DefsOf(t)) = 1
    /\ \A e \in DefsOf(t) :
           /\ \A a \in 1..Len(records[e].names) :
                  records[e].names[a].name \in MeaningfulFields(TypeMsgs(t))
           /\ \A k \in MeaningfulFields(TypeMsgs(t)) :
                  (IsStrKey(k) /\ ~UnknownKey(records[e], k))
                  => \E a \in 1..Len(records[e].names) : records[e].names[a].name = k

KeyIndexOf(j) == order[records[j].ti].key
HasFileId == \E kf \in 1..Len(messages) : messages[kf].key = "file_id_mesgs"

InvalidPattern(base_type, size) ==
    [p \in 1..size |->
       BASE_TYPE_DEFINITIONS(base_type).invalid
         [((p - 1) % Len(BASE_TYPE_DEFINITIONS(base_type).invalid)) + 1]]

\* C28: a field that the definition in force declares and the message of
\* a data record does not hold is written as the invalid sentinel of its
\* base type in every element position of its declared size.
C28_AbsentFieldIsInvalid ==
    \A j \in DataIdx : \A g \in 1..Len(LatestDef(j).field_defs) :
        (/\ LatestDef(j).ti = records[j].ti
         /\ FieldsNamed(LatestDef(j),
                        FieldNameOf(LatestDef(j).names,
                                    LatestDef(j).field_defs[g].field_id)) = {g}
         /\ IF IsDevName(FieldNameOf(LatestDef(j).names,
                                     LatestDef(j).field_defs[g].field_id))
            THEN ~Has(DevDictOf(MessageOf(records[j])),
                      Num(FieldNameOf(LatestDef(j).names,
                                      LatestDef(j).field_defs[g].field_id).dev))
            ELSE ~Has(MessageOf(records[j]),
                      FieldNameOf(LatestDef(j).names,
                                  LatestDef(j).field_defs[g].field_id)))
        => FieldBytes(j, LatestDef(j), g)
             = InvalidPattern(LatestDef(j).field_defs[g].base_type,
                              LatestDef(j).field_defs[g].size)

\* the bytes of element p of field f of data record j, under definition def
ElementBytes(j, def, f, p) ==
    FieldBytesBetween(FieldBytes(j, def, f),
        ((p - 1) * BASE_TYPE_DEFINITIONS(def.field_defs[f].base_type).size) + 1,
        p * BASE_TYPE_DEFINITIONS(def.field_defs[f].base_type).size)

\* field g of the definition in force for data record j is declared with
\* an integer type for more elements than the list of ints that the
\* message holds for it has
ShortArray(j, g) ==
    /\ LatestDef(j).ti = records[j].ti
    /\ LatestDef(j).field_defs[g].base_type \in IntegerTypes
    /\ LET name == FieldNameOf(LatestDef(j).names, LatestDef(j).field_defs[g].field_id)
           value == HeldValue(MessageOf(records[j]), name)
       IN  /\ FieldsNamed(LatestDef(j), name) = {g}
           /\ IsList(value) /\ AllInt(value.l)
           /\ Len(value.l) * BASE_TYPE_DEFINITIONS(LatestDef(j).field_defs[g].base_type).size
                < LatestDef(j).field_defs[g].size

\* C29: when the list a message holds for a field has fewer elements than
\* the definition declares, every missing trailing element is written as
\* the invalid sentinel of the base type, also for a field with a scale or
\* an offset, and the elements present, where the field has neither and
\* the int is in the range of the type, are written back to back before.
C29_ShortArrayPadding ==
    \A j \in DataIdx : \A g \in 1..Len(LatestDef(j).field_defs) :
        ShortArray(j, g)
        => LET fd == LatestDef(j).field_defs[g]
               name == FieldNameOf(LatestDef(j).names, fd.field_id)
               value == HeldValue(MessageOf(records[j]), name)
               es == BASE_TYPE_DEFINITIONS(fd.base_type).size
           IN  /\ \A p \in (Len(value.l) + 1)..(fd.size \div es) :
                      ElementBytes(j, LatestDef(j), g, p)
                        = BASE_TYPE_DEFINITIONS(fd.base_type).invalid
               /\ \A p \in 1..Len(value.l) :
                      (/\ ~Scaled(records[j], name)
                       /\ InRange(value.l[p].i, fd.base_type))
                      => ElementBytes(j, LatestDef(j), g, p) = LE(value.l[p].i, es)

\* C30: a key of the mapping whose list is empty, 'file_id_mesgs' included,
\* has no record written for it and takes no slot: when every list of the
\* mapping is empty, nothing is written and the first call leaves the slot
\* counter at 0.
C30_EmptyListWritesNothing ==
    /\ \A j \in 1..Len(records) : messages[KeyIndexOf(j)].msgs # <<>>
    /\ (/\ pc = "returned" /\ calls = 1
        /\ \A k \in 1..Len(messages) : messages[k].msgs = <<>>)
       => /\ RecordBytes = <<>>
          /\ Len(output) = 16
          /\ next_local_msg_num = 0

====
